---- MODULE Spec2Model ----
\* Cabinet controller of UH_Frames (UH_Frames_Cabinet.ino): the frame registry,
\* the MQTT report callback, the evaluation pass of loop(), the door actuator,
\* the role configuration kept in EEPROM, and the HTTP handlers that drive them.
EXTENDS Integers, Sequences, FiniteSets, TLC

\* ---------------------------------------------------------------------------
\* Program constants
\* ---------------------------------------------------------------------------
OFF == 1
ON == 0
UNDRIVEN == 2
numFrames == 3
requiredMatches == 2
LivenessTimeout == 120
MaxCopy == 31

NO_TAG == "NO_TAG"
TAG_PRESENT == "TAG_PRESENT"
NOT_RESPONDING == "NOT_RESPONDING"

FrameIds == 0 .. (numFrames - 1)

\* ---------------------------------------------------------------------------
\* Bounds of the model
\* ---------------------------------------------------------------------------
\* number of time advances explored after each boot
MaxAdvance == 2

\* ---------------------------------------------------------------------------
\* uint32_t values, kept as two 16-bit halves so that the arithmetic wraps
\* at 2^32 exactly as the hardware does
\* ---------------------------------------------------------------------------
TwoPow16 == 65536

U32(h, l) == [hi |-> h, lo |-> l]

U32Zero == U32(0, 0)

\* a natural number below 2^31 as a uint32_t
U32FromNat(n) == U32((n \div TwoPow16) % TwoPow16, n % TwoPow16)

\* a uint32_t below 2^31 as a natural number
U32ToNat(a) == a.hi * TwoPow16 + a.lo

\* a - b in uint32_t arithmetic (wraps below zero)
U32Sub(a, b) ==
  LET lo == a.lo - b.lo
      borrow == IF lo < 0 THEN 1 ELSE 0
      hi == a.hi - b.hi - borrow
  IN U32((hi + TwoPow16) % TwoPow16, (lo + TwoPow16) % TwoPow16)

\* a > b on uint32_t
U32Gt(a, b) == a.hi > b.hi \/ (a.hi = b.hi /\ a.lo > b.lo)

\* a variant of U32Times10Plus that stops at 4294967295 instead of wrapping
U32Times10PlusSaturating(a, d) ==
  LET lo == 10 * a.lo + d
      hi == 10 * a.hi + (lo \div TwoPow16)
  IN IF hi >= TwoPow16 THEN U32(TwoPow16 - 1, TwoPow16 - 1)
     ELSE U32(hi, lo % TwoPow16)

\* 10 * a + d in uint32_t arithmetic (wraps at 2^32)
U32Times10Plus(a, d) ==
  LET lo == 10 * a.lo + d
      hi == 10 * a.hi + (lo \div TwoPow16)
  IN U32(hi % TwoPow16, lo % TwoPow16)

\* uint32_t tags[2] = {0xced29ab2, 0xbd97730f}
tags == (0 :> U32(52946, 39602)) @@ (1 :> U32(48535, 29455))

\* ---------------------------------------------------------------------------
\* millis(): a 32-bit millisecond counter, kept as whole seconds and the
\* remaining milliseconds; it wraps after 4294967295 ms
\* ---------------------------------------------------------------------------
MillisMaxSec == 4294967
MillisMaxRest == 295

\* the counter d seconds after it read m
MillisAfter(m, d) ==
  LET s == m.s + d
  IN IF s > MillisMaxSec \/ (s = MillisMaxSec /\ m.ms > MillisMaxRest)
     THEN \* subtract 2^32 ms = 4294967 s + 296 ms
          IF m.ms > MillisMaxRest
          THEN [s |-> s - MillisMaxSec, ms |-> m.ms - (MillisMaxRest + 1)]
          ELSE [s |-> s - MillisMaxSec - 1, ms |-> m.ms + 1000 - (MillisMaxRest + 1)]
     ELSE [s |-> s, ms |-> m.ms]

\* millis() / 1000 as a uint32_t
MillisDiv1000(m) == U32FromNat(m.s)

\* ---------------------------------------------------------------------------
\* Arduino String and C string helpers; a string is a sequence of characters
\* ---------------------------------------------------------------------------
NUL == "NUL"

Digits == {"0", "1", "2", "3", "4", "5", "6", "7", "8", "9"}

DigitVal ==
  ("0" :> 0) @@ ("1" :> 1) @@ ("2" :> 2) @@ ("3" :> 3) @@ ("4" :> 4) @@
  ("5" :> 5) @@ ("6" :> 6) @@ ("7" :> 7) @@ ("8" :> 8) @@ ("9" :> 9)

DigitChar == <<"0", "1", "2", "3", "4", "5", "6", "7", "8", "9">>

isdigit(c) == c \in Digits

isspace(c) == c \in {" ", "\t", "\n", "\r", "\f"}

\* a variant of CopyCapped that caps the length at the size of the array
CopyCappedAtSize(bytes) ==
  IF Len(bytes) > MaxCopy + 1 THEN SubSeq(bytes, 1, MaxCopy + 1) ELSE bytes

\* if (len > 31) len = 31; memcpy(array, src, len); array[len] = '\0'
CopyCapped(bytes) ==
  IF Len(bytes) > MaxCopy THEN SubSeq(bytes, 1, MaxCopy) ELSE bytes

\* the least element of a non-empty set of integers
Least(S) == CHOOSE i \in S : \A j \in S : i <= j

\* the greatest element of a non-empty set of integers
Greatest(S) == CHOOSE i \in S : \A j \in S : i >= j

\* String(const char *): the characters before the first NUL
CStr(bytes) ==
  LET nuls == {i \in 1 .. Len(bytes) : bytes[i] = NUL}
  IN IF nuls = {} THEN bytes ELSE SubSeq(bytes, 1, Least(nuls) - 1)

startsWith(s, p) == Len(p) <= Len(s) /\ SubSeq(s, 1, Len(p)) = p

endsWith(s, p) == Len(p) <= Len(s) /\ SubSeq(s, Len(s) - Len(p) + 1, Len(s)) = p

\* String::substring(left, right), 0-based, right exclusive
substring(s, left, right) ==
  IF left >= Len(s) THEN <<>>
  ELSE SubSeq(s, left + 1, IF right > Len(s) THEN Len(s) ELSE right)

\* s without its leading white space
TrimLeft(s) ==
  LET kept == {i \in 1 .. Len(s) : ~isspace(s[i])}
  IN IF kept = {} THEN <<>> ELSE SubSeq(s, Least(kept), Len(s))

\* s without its trailing white space
TrimRight(s) ==
  LET kept == {i \in 1 .. Len(s) : ~isspace(s[i])}
  IN IF kept = {} THEN <<>> ELSE SubSeq(s, 1, Greatest(kept))

\* String::trim()
trim(s) == TrimRight(TrimLeft(s))

\* the digits atol() accumulates, most significant first
RECURSIVE AtolDigits(_, _)
AtolDigits(s, acc) ==
  IF s # <<>> /\ isdigit(Head(s))
  THEN AtolDigits(Tail(s), 10 * acc + DigitVal[Head(s)])
  ELSE acc

\* String::toInt(), i.e. atol(): leading white space, an optional sign, then
\* digits up to the first other character; 0 when there is no digit
toInt(s) ==
  LET t == TrimLeft(s)
  IN IF t # <<>> /\ Head(t) = "-" THEN 0 - AtolDigits(Tail(t), 0)
     ELSE IF t # <<>> /\ Head(t) = "+" THEN AtolDigits(Tail(t), 0)
     ELSE AtolDigits(t, 0)

\* q and r with a = 10 * q + r, on uint32_t
U32DivMod10(a) ==
  LET rest == (a.hi % 10) * TwoPow16 + a.lo
  IN [q |-> U32(a.hi \div 10, rest \div 10), r |-> rest % 10]

RECURSIVE U32Digits(_)
U32Digits(a) ==
  IF a = U32Zero THEN <<>>
  ELSE LET d == U32DivMod10(a) IN U32Digits(d.q) \o <<DigitChar[d.r + 1]>>

\* a variant of StringOfU32 that prints the value as a signed 32-bit number
StringOfSigned(a) ==
  IF a = [hi |-> 0, lo |-> 0] THEN <<"0">>
  ELSE IF a.hi >= 32768
       THEN <<"-">> \o U32Digits([hi |-> (131071 - a.hi - (IF a.lo = 0 THEN 0 ELSE 1)) % 65536,
                                   lo |-> (65536 - a.lo) % 65536])
       ELSE U32Digits(a)

\* String(uint32_t): the decimal digits of a
StringOfU32(a) == IF a = U32Zero THEN <<"0">> ELSE U32Digits(a)

\* the report callback's loop over the trimmed payload,
\*   for (i = 0; i < length() && isdigit(charAt(i)); i++)
\*     detectedTag = 10 * detectedTag + (charAt(i) - '0');
\* the number of iterations it makes: the index of the first character that
\* is no digit, or the length
DigitLoopCount(s) ==
  Least({i \in 0 .. Len(s) : i = Len(s) \/ ~isdigit(s[i + 1])})

\* detectedTag after iterations from + 1 .. to, when it was acc before them
RECURSIVE TagLoop(_, _, _, _)
TagLoop(acc, s, from, to) ==
  IF to <= from THEN acc
  ELSE U32Times10Plus(TagLoop(acc, s, from, to - 1), DigitVal[s[to]])

\* detectedTag after the first n iterations, 16 iterations at a time
TagAfter(s, n) ==
  IF n <= 16 THEN TagLoop(U32Zero, s, 0, n)
  ELSE CHOOSE t \in {TagLoop(half, s, 16, n) :
                       half \in {TagLoop(U32Zero, s, 0, 16)}} : TRUE

\* detectedTag when the loop ends
ParseTag(s) == TagAfter(s, DigitLoopCount(s))

FramePrefix == <<"/", "F", "r", "a", "m", "e">>
TagSuffix == <<"/", "t", "a", "g">>

\* ---------------------------------------------------------------------------
\* State
\* ---------------------------------------------------------------------------
VARIABLES
  frames,       \* Frame frames[numFrames]
  doorsOpen,    \* bool doorsOpen
  pins,         \* levels of the DOOR1, DOOR2 and LED outputs
  flash,        \* the two ints in the EEPROM sector of the flash
  eeprom,       \* RAM copy held by the EEPROM object, and its dirty flag
  millis,       \* the millisecond counter behind millis()
  pc,           \* "boot" before setup() has run, "run" afterwards
  numMatches,   \* numMatches of the latest evaluation pass
  lastOp,       \* the operation that ran last, with its input
  uptime,       \* seconds since boot, never wrapping (for stating claims)
  lastReport,   \* uptime of each frame's last accepted report, -1 if none
  nAdv,         \* time advances since boot
  exec,         \* where loop() and frameStatusCallback() stand when they
                \* are followed statement by statement
  node,         \* a frame node: its globals, the statics of its loop() and
                \* where its sketch stands
  net           \* the node's MQTT client and connection, and what happened
                \* last on the node (for stating claims)

vars == <<frames, doorsOpen, pins, flash, eeprom, millis, pc, numMatches,
          lastOp, uptime, lastReport, nAdv, exec, node, net>>

\* zero-initialised globals: Frame frames[numFrames]
FramesAtReset ==
  [i \in FrameIds |->
     [status |-> NO_TAG, detectedTag |-> U32Zero, desiredTag |-> U32Zero,
      lastUpdateTime |-> U32Zero]]

Op(name, input) == [op |-> name, in |-> input]

\* loop() is between two passes and no callback is running
ExecAtReset ==
  [at |-> "idle", i |-> 0, currentTime |-> U32Zero, since |-> 0,
   cb |-> "none", frameNumber |-> 0]

\* a frame node after reset: bool connectedToBroker = false,
\* publisherReady = false; static int count = 0; static uint32_t oldTag = -1
NodeAtReset ==
  [at |-> "setup", count |-> 0, oldTag |-> U32(65535, 65535),
   tag |-> U32Zero, foundTag |-> FALSE, i |-> 0,
   publisherReady |-> FALSE, connectedToBroker |-> FALSE]

\* the node's MQTT client after reset: nothing queued, no connection; the
\* access point is in reach
NetAtReset ==
  [queued |-> 0, data |-> <<>>, link |-> "down", ap |-> TRUE,
   mine |-> FALSE, acked |-> FALSE,
   quiet |-> 0, first |-> TRUE, prev |-> U32Zero, ev |-> "reset"]

\* power-up with the EEPROM sector of the flash holding one of stored
PowerUp(stored) ==
  /\ frames = FramesAtReset
  /\ doorsOpen = FALSE
  /\ pins = [door1 |-> UNDRIVEN, door2 |-> UNDRIVEN, led |-> UNDRIVEN]
  /\ flash \in stored
  /\ eeprom = [left |-> 0, right |-> 0, dirty |-> FALSE]
  /\ millis = [s |-> 0, ms |-> 0]
  /\ pc = "boot"
  /\ numMatches = 0
  /\ lastOp = Op("reset", <<>>)
  /\ uptime = 0
  /\ lastReport = [i \in FrameIds |-> 0 - 1]
  /\ nAdv = 0
  /\ exec = ExecAtReset
  /\ node = NodeAtReset
  /\ net = NetAtReset

\* ---------------------------------------------------------------------------
\* Door actuator
\* ---------------------------------------------------------------------------
\* a variant of openDoor that toggles the LED instead of turning it off
openDoorBlinking ==
  /\ pins' = [door1 |-> OFF, door2 |-> OFF,
              led |-> IF pins.led = OFF THEN ON ELSE OFF]
  /\ doorsOpen' = TRUE

\* openDoor(): magnets and LED off, doorsOpen = true
openDoor ==
  /\ pins' = [door1 |-> OFF, door2 |-> OFF, led |-> OFF]
  /\ doorsOpen' = TRUE

\* a variant of lockDoor that turns on one magnet only
lockDoorOneMagnet ==
  /\ pins' = [door1 |-> ON, door2 |-> OFF, led |-> ON]
  /\ doorsOpen' = FALSE

\* a variant of lockDoor that sets the flag and leaves the outputs alone
lockDoorFlagOnly ==
  /\ pins' = pins
  /\ doorsOpen' = FALSE

\* lockDoor(): magnets and LED on, doorsOpen = false
lockDoor ==
  /\ pins' = [door1 |-> ON, door2 |-> ON, led |-> ON]
  /\ doorsOpen' = FALSE

\* ---------------------------------------------------------------------------
\* setup() and setupFrames()
\* ---------------------------------------------------------------------------
\* a variant of IdsSane that lets both ids be the same
IdsSaneSameFrame(leftId, rightId) ==
  /\ leftId >= 0 /\ leftId < numFrames
  /\ rightId >= 0 /\ rightId < numFrames

\* the sanity test of setupFrames() on the two ids read from the EEPROM
IdsSane(leftId, rightId) ==
  /\ leftId >= 0 /\ leftId < numFrames
  /\ rightId >= 0 /\ rightId < numFrames
  /\ leftId # rightId

\* the frame table setupFrames() builds from the ids in the EEPROM
setupFrames(leftId, rightId) ==
  LET cleared == [i \in FrameIds |->
                    [status |-> NO_TAG, desiredTag |-> U32Zero,
                     detectedTag |-> U32Zero, lastUpdateTime |-> U32Zero]]
  IN IF IdsSane(leftId, rightId)
     THEN [[cleared EXCEPT ![leftId].desiredTag = tags[0]]
             EXCEPT ![rightId].desiredTag = tags[1]]
     ELSE cleared

\* the frame table after each assignment setupFrames() makes, in order: the
\* for loop resets frame 0, 1, ..., then the left and the right role are set
SetupSteps(fr, leftId, rightId) ==
  LET reset == [status |-> NO_TAG, desiredTag |-> U32Zero,
                detectedTag |-> U32Zero, lastUpdateTime |-> U32Zero]
      resetUpTo(k) == [i \in FrameIds |-> IF i < k THEN reset ELSE fr[i]]
      clearing == [k \in 1 .. numFrames |-> resetUpTo(k)]
      withLeft == [resetUpTo(numFrames) EXCEPT ![leftId].desiredTag = tags[0]]
      withRight == [withLeft EXCEPT ![rightId].desiredTag = tags[1]]
  IN IF IdsSane(leftId, rightId) THEN clearing \o <<withLeft, withRight>>
     ELSE clearing

\* a variant of setup that does not call openDoor()
setupNoOpen ==
  /\ pc = "boot"
  /\ eeprom' = [left |-> flash.left, right |-> flash.right, dirty |-> FALSE]
  /\ frames' = setupFrames(flash.left, flash.right)
  /\ pc' = "run"
  /\ lastOp' = Op("setup", <<>>)
  /\ UNCHANGED <<pins, doorsOpen, flash, millis, numMatches, uptime,
                 lastReport, nAdv>>
  /\ UNCHANGED <<exec, node, net>>

\* setup(): open the doors, start the servers, load the frame table
setup ==
  /\ pc = "boot"
  /\ openDoor
  /\ eeprom' = [left |-> flash.left, right |-> flash.right, dirty |-> FALSE]
  /\ frames' = setupFrames(flash.left, flash.right)
  /\ pc' = "run"
  /\ lastOp' = Op("setup", <<>>)
  /\ UNCHANGED <<flash, millis, numMatches, uptime, lastReport, nAdv>>
  /\ UNCHANGED <<exec, node, net>>

\* ---------------------------------------------------------------------------
\* loop(): the evaluation pass
\* ---------------------------------------------------------------------------
\* a variant of FrameIsDead that lets a frame live one second longer
FrameIsDeadLate(f, currentTime) ==
  U32Gt(U32Sub(currentTime, f.lastUpdateTime), U32FromNat(LivenessTimeout + 1))

\* currentTime - frames[i].lastUpdateTime > 120
FrameIsDead(f, currentTime) ==
  U32Gt(U32Sub(currentTime, f.lastUpdateTime), U32FromNat(LivenessTimeout))

\* a variant of FoundRightTag that does not ask for a role
FoundRightTagSpare(f) == f.desiredTag = f.detectedTag

\* (desiredTag != 0) && (desiredTag == detectedTag)
FoundRightTag(f) == f.desiredTag # U32Zero /\ f.desiredTag = f.detectedTag

\* a variant of CheckFrames that leaves the detectedTag of a dead frame alone
RECURSIVE CheckFramesKeepTag(_, _, _, _)
CheckFramesKeepTag(i, fr, n, currentTime) ==
  IF i >= numFrames THEN [frames |-> fr, numMatches |-> n]
  ELSE IF FrameIsDead(fr[i], currentTime)
       THEN CheckFramesKeepTag(i + 1, [fr EXCEPT ![i].status = NOT_RESPONDING],
                               n, currentTime)
       ELSE IF FoundRightTag(fr[i])
            THEN CheckFramesKeepTag(i + 1, [fr EXCEPT ![i].status = TAG_PRESENT],
                                    n + 1, currentTime)
            ELSE CheckFramesKeepTag(i + 1, [fr EXCEPT ![i].status = NO_TAG],
                                    n, currentTime)

\* the for loop of loop() from index i on, with the frames and the count so far
RECURSIVE CheckFrames(_, _, _, _)
CheckFrames(i, fr, n, currentTime) ==
  IF i >= numFrames THEN [frames |-> fr, numMatches |-> n]
  ELSE IF FrameIsDead(fr[i], currentTime)
       THEN CheckFrames(i + 1,
              [fr EXCEPT ![i].status = NOT_RESPONDING, ![i].detectedTag = U32Zero],
              n, currentTime)
       ELSE IF FoundRightTag(fr[i])
            THEN CheckFrames(i + 1, [fr EXCEPT ![i].status = TAG_PRESENT],
                             n + 1, currentTime)
            ELSE CheckFrames(i + 1, [fr EXCEPT ![i].status = NO_TAG],
                             n, currentTime)

\* a variant of ShouldOpen that never opens
ShouldOpenNever(n) == FALSE

\* a variant of ShouldOpen that asks for one match more
ShouldOpenStrict(n) == n > requiredMatches

\* if (numMatches >= requiredMatches) openDoor();
ShouldOpen(n) == n >= requiredMatches

\* a variant of loop that locks the doors when the matches are too few
loopRelocking ==
  /\ pc = "run"
  /\ LET r == CheckFrames(0, frames, 0, MillisDiv1000(millis))
     IN /\ frames' = r.frames
        /\ numMatches' = r.numMatches
        /\ IF ShouldOpen(r.numMatches) THEN openDoor ELSE lockDoor
  /\ lastOp' = Op("loop", <<>>)
  /\ UNCHANGED <<flash, eeprom, millis, pc, uptime, lastReport, nAdv>>
  /\ UNCHANGED <<exec, node, net>>

loop ==
  /\ pc = "run"
  /\ LET r == CheckFrames(0, frames, 0, MillisDiv1000(millis))
     IN /\ frames' = r.frames
        /\ numMatches' = r.numMatches
        /\ IF ShouldOpen(r.numMatches) THEN openDoor
           ELSE UNCHANGED <<pins, doorsOpen>>
  /\ lastOp' = Op("loop", <<>>)
  /\ UNCHANGED <<flash, eeprom, millis, pc, uptime, lastReport, nAdv>>
  /\ UNCHANGED <<exec, node, net>>

\* ---------------------------------------------------------------------------
\* frameStatusCallback(): a report from the MQTT broker
\* ---------------------------------------------------------------------------
\* topicStr.startsWith("/Frame") && topicStr.endsWith("/tag")
TopicLooksOk(topicStr) ==
  startsWith(topicStr, FramePrefix) /\ endsWith(topicStr, TagSuffix)

\* topicStr.substring(6, 7).toInt() - 1
FrameNumber(topicStr) == toInt(substring(topicStr, 6, 7)) - 1

\* (frameNumber >= 0) && (frameNumber < numFrames)
FrameNumberOk(frameNumber) == frameNumber >= 0 /\ frameNumber < numFrames

\* the report is stored: the topic passes both tests
Accepted(topic) ==
  LET topicStr == CStr(CopyCapped(topic))
  IN TopicLooksOk(topicStr) /\ FrameNumberOk(FrameNumber(topicStr))

\* a variant of DetectedTag that leaves out dataStr.trim()
DetectedTagUntrimmed(data) == ParseTag(CStr(CopyCapped(data)))

\* the tag parsed out of the payload
DetectedTag(data) == ParseTag(trim(CStr(CopyCapped(data))))

\* a variant of StoreReport that keeps a stored tag that matches the role
StoreReportKeepMatch(fr, frameNumber, detectedTag, now) ==
  IF /\ fr[frameNumber].desiredTag # U32Zero
     /\ fr[frameNumber].detectedTag = fr[frameNumber].desiredTag
  THEN [fr EXCEPT ![frameNumber].lastUpdateTime = now]
  ELSE [fr EXCEPT ![frameNumber].detectedTag = detectedTag,
                  ![frameNumber].lastUpdateTime = now]

\* a variant of StoreReport that makes the reported tag the desired one
StoreReportAsRole(fr, frameNumber, detectedTag, now) ==
  [fr EXCEPT ![frameNumber].detectedTag = detectedTag,
             ![frameNumber].desiredTag = detectedTag,
             ![frameNumber].lastUpdateTime = now]

\* a variant of StoreReport that writes the tag to every frame
StoreReportAllFrames(fr, frameNumber, detectedTag, now) ==
  [i \in FrameIds |->
     IF i = frameNumber
     THEN [fr[i] EXCEPT !.detectedTag = detectedTag, !.lastUpdateTime = now]
     ELSE [fr[i] EXCEPT !.detectedTag = detectedTag]]

\* a variant of StoreReport that also writes the status
StoreReportWithStatus(fr, frameNumber, detectedTag, now) ==
  [fr EXCEPT ![frameNumber].detectedTag = detectedTag,
             ![frameNumber].lastUpdateTime = now,
             ![frameNumber].status = TAG_PRESENT]

\* the frame table after the report
StoreReport(fr, frameNumber, detectedTag, now) ==
  [fr EXCEPT ![frameNumber].detectedTag = detectedTag,
             ![frameNumber].lastUpdateTime = now]

frameStatusCallback(topic, data) ==
  /\ pc = "run"
  /\ LET topicStr == CStr(CopyCapped(topic))
         frameNumber == FrameNumber(topicStr)
     IN IF TopicLooksOk(topicStr) /\ FrameNumberOk(frameNumber)
        THEN /\ frames' = StoreReport(frames, frameNumber, DetectedTag(data),
                                      MillisDiv1000(millis))
             /\ lastReport' = [lastReport EXCEPT ![frameNumber] = uptime]
        ELSE UNCHANGED <<frames, lastReport>>
  /\ lastOp' = Op("report", [topic |-> topic, data |-> data])
  /\ UNCHANGED <<doorsOpen, pins, flash, eeprom, millis, pc, numMatches,
                 uptime, nAdv>>
  /\ UNCHANGED <<exec, node, net>>

\* ---------------------------------------------------------------------------
\* HTTP handlers; args maps the names of the arguments present to their values
\* ---------------------------------------------------------------------------
hasArg(args, name) == name \in DOMAIN args

\* handleDoorCmd(): doorCmd=open opens, doorCmd=lock locks, anything else is ignored
handleDoorCmd(args) ==
  /\ pc = "run"
  /\ IF hasArg(args, "doorCmd") /\ args.doorCmd = "open" THEN openDoor
     ELSE IF hasArg(args, "doorCmd") /\ args.doorCmd = "lock" THEN lockDoor
     ELSE UNCHANGED <<pins, doorsOpen>>
  /\ lastOp' = Op("doorCmd", args)
  /\ UNCHANGED <<frames, flash, eeprom, millis, pc, numMatches, uptime,
                 lastReport, nAdv>>
  /\ UNCHANGED <<exec, node, net>>

\* a variant of ConfigId that forgets the - 1
ConfigIdOneBased(args, name) ==
  IF hasArg(args, name) THEN toInt(args[name]) ELSE 0 - 1

\* leftId / rightId of handleConfig(): -1 when absent, else arg.toInt() - 1
ConfigId(args, name) ==
  IF hasArg(args, name) THEN toInt(args[name]) - 1 ELSE 0 - 1

\* a variant of ConfigValid that lets both roles name one frame
ConfigValidSameFrame(leftId, rightId) ==
  /\ leftId >= 0 /\ leftId < numFrames
  /\ rightId >= 0 /\ rightId < numFrames

\* the validity test of handleConfig()
ConfigValid(leftId, rightId) ==
  /\ leftId >= 0 /\ leftId < numFrames
  /\ rightId >= 0 /\ rightId < numFrames
  /\ leftId # rightId

\* a variant of AssignRoles that sets the two roles without clearing first
AssignRolesNoClear(fr, leftId, rightId) ==
  [[fr EXCEPT ![leftId].desiredTag = tags[0]]
     EXCEPT ![rightId].desiredTag = tags[1]]

\* clear every desiredTag, then set the left and the right one
AssignRoles(fr, leftId, rightId) ==
  LET cleared == [i \in FrameIds |-> [fr[i] EXCEPT !.desiredTag = U32Zero]]
  IN [[cleared EXCEPT ![leftId].desiredTag = tags[0]]
        EXCEPT ![rightId].desiredTag = tags[1]]

\* the frame table after each assignment handleConfig() makes once the ids
\* are valid, in order: the for loop clears desiredTag of frame 0, 1, ...,
\* then the left and the right role are set
ConfigSteps(fr, leftId, rightId) ==
  LET clearedUpTo(k) ==
        [i \in FrameIds |->
           IF i < k THEN [fr[i] EXCEPT !.desiredTag = U32Zero] ELSE fr[i]]
      clearing == [k \in 1 .. numFrames |-> clearedUpTo(k)]
      withLeft == [clearedUpTo(numFrames) EXCEPT ![leftId].desiredTag = tags[0]]
      withRight == [withLeft EXCEPT ![rightId].desiredTag = tags[1]]
  IN clearing \o <<withLeft, withRight>>

\* a variant of EepromPut that stores the value without marking the copy dirty
EepromPutNotDirty(e, field, value) == [e EXCEPT ![field] = value]

\* EEPROM.put(address, value): the RAM copy changes, and is dirty, when the
\* value differs from the one held
EepromPut(e, field, value) ==
  IF e[field] # value THEN [e EXCEPT ![field] = value, !.dirty = TRUE] ELSE e

\* outcomes of EEPROM.commit() on a dirty copy: sector erased and written,
\* erase refused (flash as before), write refused (sector left erased)
CommitOutcomes == {"ok", "erase_failed", "write_failed"}

\* the flash after EEPROM.commit()
FlashAfterCommit(fl, e, outcome) ==
  IF ~e.dirty \/ outcome = "erase_failed" THEN fl
  ELSE IF outcome = "ok" THEN [left |-> e.left, right |-> e.right]
  ELSE [left |-> 0 - 1, right |-> 0 - 1]

\* the RAM copy after EEPROM.commit(): clean once written
EepromAfterCommit(e, outcome) ==
  IF e.dirty /\ outcome = "ok" THEN [e EXCEPT !.dirty = FALSE] ELSE e

\* a variant of handleConfig that locks the doors when it accepts a request
handleConfigLocking(args, outcome) ==
  /\ pc = "run"
  /\ LET leftId == ConfigId(args, "left")
         rightId == ConfigId(args, "right")
     IN IF ConfigValid(leftId, rightId)
        THEN LET e == EepromPut(EepromPut(eeprom, "left", leftId), "right", rightId)
             IN /\ frames' = AssignRoles(frames, leftId, rightId)
                /\ flash' = FlashAfterCommit(flash, e, outcome)
                /\ eeprom' = EepromAfterCommit(e, outcome)
                /\ lockDoor
        ELSE UNCHANGED <<frames, flash, eeprom, doorsOpen, pins>>
  /\ lastOp' = Op("config", args)
  /\ UNCHANGED <<millis, pc, numMatches, uptime, lastReport, nAdv>>
  /\ UNCHANGED <<exec, node, net>>

handleConfig(args, outcome) ==
  /\ pc = "run"
  /\ LET leftId == ConfigId(args, "left")
         rightId == ConfigId(args, "right")
     IN IF ConfigValid(leftId, rightId)
        THEN LET e == EepromPut(EepromPut(eeprom, "left", leftId), "right", rightId)
             IN /\ frames' = AssignRoles(frames, leftId, rightId)
                /\ flash' = FlashAfterCommit(flash, e, outcome)
                /\ eeprom' = EepromAfterCommit(e, outcome)
        ELSE UNCHANGED <<frames, flash, eeprom>>
  /\ lastOp' = Op("config", args)
  /\ UNCHANGED <<doorsOpen, pins, millis, pc, numMatches, uptime, lastReport, nAdv>>
  /\ UNCHANGED <<exec, node, net>>

\* handleRestartRequest(): ESP.restart(); RAM and outputs are as after reset,
\* the flash keeps its contents
handleRestartRequest ==
  /\ pc = "run"
  /\ frames' = FramesAtReset
  /\ doorsOpen' = FALSE
  /\ pins' = [door1 |-> UNDRIVEN, door2 |-> UNDRIVEN, led |-> UNDRIVEN]
  /\ eeprom' = [left |-> 0, right |-> 0, dirty |-> FALSE]
  /\ millis' = [s |-> 0, ms |-> 0]
  /\ pc' = "boot"
  /\ numMatches' = 0
  /\ lastOp' = Op("restart", <<>>)
  /\ uptime' = 0
  /\ lastReport' = [i \in FrameIds |-> 0 - 1]
  /\ nAdv' = 0
  /\ UNCHANGED flash
  /\ UNCHANGED <<exec, node, net>>

\* ---------------------------------------------------------------------------
\* Passing of time. loop() runs an evaluation pass every 10 ms or so, so time
\* moves on only from a state the evaluation has seen; while more than 120 s
\* pass without a report, the passes in between mark every frame
\* NOT_RESPONDING and clear its detectedTag
\* ---------------------------------------------------------------------------
LongIdle == MillisMaxSec

Delays == {1, 10, LivenessTimeout, LongIdle}

StaleFrames(fr) ==
  [i \in FrameIds |->
     [fr[i] EXCEPT !.status = NOT_RESPONDING, !.detectedTag = U32Zero]]

AdvanceTime(d) ==
  /\ pc = "run"
  /\ lastOp.op = "loop"
  /\ nAdv < MaxAdvance
  /\ millis' = MillisAfter(millis, d)
  /\ uptime' = uptime + d
  /\ nAdv' = nAdv + 1
  /\ frames' = IF d > LivenessTimeout THEN StaleFrames(frames) ELSE frames
  /\ lastOp' = Op("idle", d)
  /\ UNCHANGED <<doorsOpen, pins, flash, eeprom, pc, numMatches, lastReport>>
  /\ UNCHANGED <<exec, node, net>>

\* ---------------------------------------------------------------------------
\* Inputs
\* ---------------------------------------------------------------------------
\* "/Frame<k>/tag"
FrameTopic(k) == FramePrefix \o k \o TagSuffix

Report(t, d) == [topic |-> t, data |-> d]

NoArgs == [n \in {} |-> 0]

\* a stored assignment left -> frame 1, right -> frame 2
StoredLeft1Right2 == [left |-> 0, right |-> 1]

\* reports of the frames: the tag of the left role and the tag of the right
\* role, also at the wrong frame; frame 3 is the spare
QuorumReports ==
  { Report(FrameTopic(<<"1">>), StringOfU32(tags[0])),
    Report(FrameTopic(<<"2">>), StringOfU32(tags[1])),
    Report(FrameTopic(<<"2">>), StringOfU32(tags[0])),
    Report(FrameTopic(<<"3">>), StringOfU32(tags[0])) }

\* doorCmd=open, doorCmd=lock, an unknown value, and no doorCmd at all
DoorCommands ==
  { [doorCmd |-> "open"], [doorCmd |-> "lock"], [doorCmd |-> "toggle"], NoArgs }

\* ---------------------------------------------------------------------------
\* Specification of the quorum controller: reports, evaluation passes, door
\* commands, restarts and the passing of time, with left -> frame 1,
\* right -> frame 2 stored in the EEPROM
\* ---------------------------------------------------------------------------
Init == PowerUp({StoredLeft1Right2})

Next ==
  \/ setup
  \/ loop
  \/ \E r \in QuorumReports : frameStatusCallback(r.topic, r.data)
  \/ \E a \in DoorCommands : handleDoorCmd(a)
  \/ \E d \in Delays : AdvanceTime(d)
  \/ handleRestartRequest

Spec == Init /\ [][Next]_vars

\* ---------------------------------------------------------------------------
\* Specification of the report parser: topics and payloads of every shape
\* arrive, one second apart at most
\* ---------------------------------------------------------------------------
\* the character c, n times
RECURSIVE Repeat(_, _)
Repeat(c, n) == IF n = 0 THEN <<>> ELSE <<c>> \o Repeat(c, n - 1)

\* 35 bytes of which the first 31 are "/Frame2/" ++ 19 x's ++ "/tag"
LongTopic ==
  FramePrefix \o <<"2", "/">> \o Repeat("x", 19) \o TagSuffix
    \o <<"/", "e", "n", "d">>

ParserTopics ==
  { FrameTopic(<<"1">>), FrameTopic(<<"2">>), FrameTopic(<<"3">>),
    FrameTopic(<<"0">>), FrameTopic(<<"4">>), FrameTopic(<<"1", "2">>),
    FrameTopic(<<"3", "1">>), FrameTopic(<<>>), FrameTopic(<<"x">>),
    FramePrefix \o <<"1", "/", "x">> \o TagSuffix,
    <<"/", "D", "o", "o", "r">> \o TagSuffix,
    FrameTopic(<<"2">>) \o <<"s">>,
    LongTopic }

\* 34 bytes: 25 blanks, then "123456789"; the first 31 end after the "6"
LongPayload ==
  Repeat(" ", 25) \o <<"1", "2", "3", "4", "5", "6", "7", "8", "9">>

\* 31 bytes, the most that is copied whole, and 32 bytes, one too many
Payload31 == Repeat(" ", 28) \o <<"1", "2", "3">>

Payload32 == Repeat(" ", 28) \o <<"1", "2", "3", "4">>

\* 31 digits, the longest run of digits the callback reads
Digits31 ==
  <<"1", "8", "4", "4", "6", "7", "4", "4", "0", "7", "8",
    "0", "0", "4", "5", "1", "8", "9", "1", "3", "0", "0",
    "0", "0", "0", "0", "0", "0", "0", "0", "7">>

\* 2 * 2^32 + 12
TwicePlus12 == <<"8", "5", "8", "9", "9", "3", "4", "6", "0", "4">>

ParserPayloads ==
  { StringOfU32(tags[1]),
    <<"0">>,
    <<>>,
    <<"a", "b", "c">>,
    <<"1", "2">>,
    <<" ", "1", "2", "\n">>,
    <<"1", "2", "a", "7">>,
    <<"4", "2", "9", "4", "9", "6", "7", "2", "9", "5">>,
    <<"4", "2", "9", "4", "9", "6", "7", "2", "9", "6">>,
    <<"7", NUL, "7">>,
    Payload31,
    Payload32,
    Digits31,
    TwicePlus12,
    LongPayload }

ParserReports ==
  { Report(t, StringOfU32(tags[0])) : t \in ParserTopics }
    \cup { Report(FrameTopic(<<"2">>), d) : d \in ParserPayloads }

NextReport ==
  \/ setup
  \/ loop
  \/ \E r \in ParserReports : frameStatusCallback(r.topic, r.data)
  \/ AdvanceTime(1)

SpecReport == Init /\ [][NextReport]_vars

\* ---------------------------------------------------------------------------
\* Specification of the path of a tag from the frame node to the cabinet:
\* publishTag() of the node "Frame2" sends String(tag) on "/Frame2/tag", and
\* the broker hands topic and payload to frameStatusCallback()
\* ---------------------------------------------------------------------------
\* tags a PN532 may read: no tag, small ones, the ones around 2^16, 2^31 and
\* 2^32, and the two the roles ask for
SensedTags ==
  { U32Zero, U32(0, 1), U32(0, 9), U32(0, 10), U32(0, 65535), U32(1, 0),
    U32(15258, 51711), U32(15258, 51712),
    U32(32767, 65535), U32(32768, 0), tags[0], tags[1],
    U32(65535, 65526), U32(65535, 65535) }

\* String clientId("Frame2"); String topic("/" + clientId + "/tag");
NodeTopic == <<"/">> \o <<"F", "r", "a", "m", "e", "2">> \o <<"/", "t", "a", "g">>

\* publishTag(tag): the message mqtt.publish() sends
Published(tag) == Report(NodeTopic, StringOfU32(tag))

NextRoundTrip ==
  \/ setup
  \/ loop
  \/ \E tag \in SensedTags :
       frameStatusCallback(Published(tag).topic, Published(tag).data)
  \/ AdvanceTime(1)

SpecRoundTrip == Init /\ [][NextRoundTrip]_vars

\* ---------------------------------------------------------------------------
\* Specification of the role configuration: reconfiguration requests of every
\* shape, commits that succeed or fail, restarts, and any contents of the
\* EEPROM sector at power-up
\* ---------------------------------------------------------------------------
\* erased flash, a valid assignment, the same frame twice, an index out of range
FlashContents ==
  { [left |-> 0 - 1, right |-> 0 - 1], StoredLeft1Right2,
    [left |-> 2, right |-> 2], [left |-> numFrames, right |-> 0] }

ConfigRequests ==
  { [left |-> <<"1">>, right |-> <<"2">>],
    [left |-> <<"3">>, right |-> <<"1">>],
    [left |-> <<"2">>, right |-> <<"2">>],
    [right |-> <<"3">>],
    [left |-> <<"1">>],
    [left |-> <<"a", "b", "c">>, right |-> <<"1">>],
    [left |-> <<"0">>, right |-> <<"2">>],
    [left |-> <<"1">>, right |-> <<"4">>],
    [left |-> <<"2", "x">>, right |-> <<"1">>] }

ConfigReports ==
  { Report(FrameTopic(<<"1">>), StringOfU32(tags[0])),
    Report(FrameTopic(<<"2">>), StringOfU32(tags[1])) }

InitConfig == PowerUp(FlashContents)

NextConfig ==
  \/ setup
  \/ loop
  \/ \E r \in ConfigReports : frameStatusCallback(r.topic, r.data)
  \/ \E a \in ConfigRequests, o \in CommitOutcomes : handleConfig(a, o)
  \/ handleRestartRequest
  \/ AdvanceTime(LivenessTimeout + 1)

SpecConfig == InitConfig /\ [][NextConfig]_vars

\* ---------------------------------------------------------------------------
\* Specification of all operations together, on few inputs: reports,
\* evaluation passes, reconfigurations, door commands, restarts and time,
\* starting with left -> frame 1, right -> frame 2 stored in the EEPROM
\* ---------------------------------------------------------------------------
\* an assignment that moves both roles, and the same frame twice
EffectRequests ==
  { [left |-> <<"3">>, right |-> <<"1">>],
    [left |-> <<"2">>, right |-> <<"2">>] }

EffectDoorCommands == { [doorCmd |-> "open"], [doorCmd |-> "lock"] }

\* the tags of the two roles from their frames, a payload without digits,
\* and a topic of something that is no frame
EffectReports ==
  ConfigReports
    \cup { Report(FrameTopic(<<"2">>), <<"a", "b", "c">>),
           Report(<<"/", "D", "o", "o", "r">> \o TagSuffix, StringOfU32(tags[0])) }

NextEffects ==
  \/ setup
  \/ loop
  \/ \E r \in EffectReports : frameStatusCallback(r.topic, r.data)
  \/ \E a \in EffectRequests : handleConfig(a, "ok")
  \/ \E a \in EffectDoorCommands : handleDoorCmd(a)
  \/ handleRestartRequest
  \/ \E d \in {1, LivenessTimeout} : AdvanceTime(d)

SpecEffects == Init /\ [][NextEffects]_vars

\* ---------------------------------------------------------------------------
\* Specification of the scheduling: loop() and frameStatusCallback() followed
\* statement by statement. The sketch is the one cooperative task of the
\* ESP8266 core; the broker calls frameStatusCallback() from the network
\* stack, which runs when the sketch yields, and the sketch resumes when the
\* stack has returned
\* ---------------------------------------------------------------------------
\* a variant of SketchYields with a yield inside the for loop of loop()
SketchYieldsInLoop(at) == at \in {"idle", "check"}

\* where loop() yields: server.handleClient(), ArduinoOTA.handle(), delay(10)
\* and the return to the core, all of them after the evaluation
SketchYields(at) == at = "idle"

\* the sketch runs: the network stack is not inside a callback
SketchRuns == exec.cb = "none"

\* int numMatches = 0; uint32_t currentTime = millis() / 1000;
loopCaptureTime ==
  /\ pc = "run" /\ exec.at = "idle" /\ SketchRuns
  /\ numMatches' = 0
  /\ exec' = [exec EXCEPT !.at = "check", !.i = 0,
                          !.currentTime = MillisDiv1000(millis),
                          !.since = uptime]
  /\ lastOp' = Op("loopCapture", <<>>)
  /\ UNCHANGED <<frames, doorsOpen, pins, flash, eeprom, millis, pc, uptime,
                 lastReport, nAdv>>
  /\ UNCHANGED <<node, net>>

\* one iteration of the for loop of loop(), for frame exec.i
loopCheckFrame ==
  /\ pc = "run" /\ exec.at = "check" /\ SketchRuns
  /\ LET i == exec.i
     IN /\ IF FrameIsDead(frames[i], exec.currentTime)
           THEN /\ frames' = [frames EXCEPT ![i].status = NOT_RESPONDING,
                                            ![i].detectedTag = U32Zero]
                /\ numMatches' = numMatches
           ELSE IF FoundRightTag(frames[i])
                THEN /\ frames' = [frames EXCEPT ![i].status = TAG_PRESENT]
                     /\ numMatches' = numMatches + 1
                ELSE /\ frames' = [frames EXCEPT ![i].status = NO_TAG]
                     /\ numMatches' = numMatches
        /\ exec' = [exec EXCEPT !.i = i + 1,
                                !.at = IF i + 1 < numFrames THEN "check"
                                       ELSE "decide"]
  /\ lastOp' = Op("loopCheck", exec.i)
  /\ UNCHANGED <<doorsOpen, pins, flash, eeprom, millis, pc, uptime,
                 lastReport, nAdv>>
  /\ UNCHANGED <<node, net>>

\* the end of loop(): open on enough matches, then handleClient() and delay()
loopDecide ==
  /\ pc = "run" /\ exec.at = "decide" /\ SketchRuns
  /\ IF ShouldOpen(numMatches) THEN openDoor
     ELSE UNCHANGED <<pins, doorsOpen>>
  /\ exec' = [exec EXCEPT !.at = "idle"]
  /\ lastOp' = Op("loop", <<>>)
  /\ UNCHANGED <<frames, flash, eeprom, millis, pc, numMatches, uptime,
                 lastReport, nAdv>>
  /\ UNCHANGED <<node, net>>

\* frameStatusCallback() up to frames[frameNumber].detectedTag = detectedTag
callbackStoreTag(topic, data) ==
  /\ pc = "run" /\ SketchYields(exec.at) /\ exec.cb = "none"
  /\ LET topicStr == CStr(CopyCapped(topic))
         frameNumber == FrameNumber(topicStr)
     IN IF TopicLooksOk(topicStr) /\ FrameNumberOk(frameNumber)
        THEN /\ frames' = [frames EXCEPT
                             ![frameNumber].detectedTag = DetectedTag(data)]
             /\ exec' = [exec EXCEPT !.cb = "time",
                                     !.frameNumber = frameNumber]
        ELSE UNCHANGED <<frames, exec>>
  /\ lastOp' = Op("reportTag", [topic |-> topic, data |-> data])
  /\ UNCHANGED <<doorsOpen, pins, flash, eeprom, millis, pc, numMatches,
                 uptime, lastReport, nAdv>>
  /\ UNCHANGED <<node, net>>

\* frames[frameNumber].lastUpdateTime = millis() / 1000, and the return
callbackStoreTime ==
  /\ pc = "run" /\ exec.cb = "time"
  /\ frames' = [frames EXCEPT
                  ![exec.frameNumber].lastUpdateTime = MillisDiv1000(millis)]
  /\ lastReport' = [lastReport EXCEPT ![exec.frameNumber] = uptime]
  /\ exec' = [exec EXCEPT !.cb = "none"]
  /\ lastOp' = Op("reportTime", exec.frameNumber)
  /\ UNCHANGED <<doorsOpen, pins, flash, eeprom, millis, pc, numMatches,
                 uptime, nAdv>>
  /\ UNCHANGED <<node, net>>

\* a second passes, wherever the sketch and the callback stand
Tick ==
  /\ pc = "run"
  /\ nAdv < MaxAdvance
  /\ millis' = MillisAfter(millis, 1)
  /\ uptime' = uptime + 1
  /\ nAdv' = nAdv + 1
  /\ lastOp' = Op("tick", 1)
  /\ UNCHANGED <<frames, doorsOpen, pins, flash, eeprom, pc, numMatches,
                 lastReport, exec, node, net>>

\* a door command is handled inside server.handleClient()
handleClient(args) ==
  /\ exec.at = "idle" /\ SketchRuns
  /\ handleDoorCmd(args)

NextSteps ==
  \/ setup
  \/ loopCaptureTime
  \/ loopCheckFrame
  \/ loopDecide
  \/ \E r \in QuorumReports : callbackStoreTag(r.topic, r.data)
  \/ callbackStoreTime
  \/ Tick
  \/ \E a \in EffectDoorCommands : handleClient(a)
  \/ AdvanceTime(LivenessTimeout)

SpecSteps == Init /\ [][NextSteps]_vars

\* ---------------------------------------------------------------------------
\* Properties of the evaluation pass (under Spec)
\* ---------------------------------------------------------------------------
\* C1: whenever an evaluation pass of loop() counts at least requiredMatches
\* matches, the lock is open when the pass ends, whatever it was before; and
\* with left -> frame 1, right -> frame 2, frame 1 reporting its desired tag at
\* t = 0 and frame 2 its desired tag at t = 1 s, the pass at t = 2 s counts two
\* matches and the lock is open
C1_QuorumOpensLock ==
  [][lastOp'.op = "loop" =>
       /\ (numMatches' >= requiredMatches =>
             doorsOpen' /\ pins' = [door1 |-> OFF, door2 |-> OFF, led |-> OFF])
       /\ (/\ uptime = 2 /\ lastReport[0] = 0 /\ lastReport[1] = 1
           /\ frames[0].desiredTag = tags[0] /\ frames[0].detectedTag = tags[0]
           /\ frames[1].desiredTag = tags[1] /\ frames[1].detectedTag = tags[1]
           => numMatches' = 2 /\ doorsOpen')]_vars

\* the scenario of C1 after the pass at t = 2 s
C1_Witness ==
  /\ lastOp.op = "loop" /\ uptime = 2
  /\ lastReport[0] = 0 /\ lastReport[1] = 1
  /\ frames[0].status = TAG_PRESENT /\ frames[1].status = TAG_PRESENT
  /\ numMatches = 2 /\ doorsOpen

\* currentTime - frames[i].lastUpdateTime > 120 in 32-bit unsigned arithmetic,
\* on the seconds as plain integers: a negative difference wraps to a huge one
Overdue(i) ==
  LET currentTime == millis.s
      updated == U32ToNat(frames[i].lastUpdateTime)
  IN currentTime - updated > LivenessTimeout \/ currentTime < updated

\* C2: for every frame i and every evaluation pass, if at that pass
\* currentTime - frames[i].lastUpdateTime > 120 then after the pass the frame
\* is NOT_RESPONDING and its detectedTag is 0, whatever detectedTag and
\* desiredTag were
C2_SilentFrameIsDead ==
  [][lastOp'.op = "loop" =>
       \A i \in FrameIds :
         Overdue(i) => /\ frames'[i].status = NOT_RESPONDING
                       /\ frames'[i].detectedTag = U32Zero]_vars

\* frame 1 has a role and reported its tag at t = 0; the pass at t = 121 s
\* declares it dead
C2_Witness ==
  /\ lastOp.op = "loop" /\ uptime = LivenessTimeout + 1
  /\ lastReport[0] = 0
  /\ frames[0].desiredTag = tags[0]
  /\ frames[0].status = NOT_RESPONDING /\ frames[0].detectedTag = U32Zero

\* the frames that, going into a pass, have a report no older than 120 s,
\* a role, and the tag of that role
FreshMatches ==
  { i \in FrameIds :
      /\ lastReport[i] >= 0 /\ uptime - lastReport[i] <= LivenessTimeout
      /\ frames[i].desiredTag # U32Zero
      /\ frames[i].detectedTag = frames[i].desiredTag }

\* C3: at every evaluation pass numMatches is the number of frames that have
\* a report no older than 120 s, a desiredTag other than 0 and
\* detectedTag = desiredTag
C3_CountsFreshMatches ==
  [][lastOp'.op = "loop" => numMatches' = Cardinality(FreshMatches)]_vars

\* C8: over any sequence of accepted reports the values written to a
\* frame's lastUpdateTime never decrease
C8_UpdateTimeMonotonic ==
  [][lastOp'.op = "report" =>
       \A i \in FrameIds :
         U32ToNat(frames'[i].lastUpdateTime)
           >= U32ToNat(frames[i].lastUpdateTime)]_vars

\* ---------------------------------------------------------------------------
\* Properties of the report parser (under SpecReport)
\* ---------------------------------------------------------------------------
\* the text between "/Frame" and "/tag" of a topic that has both
TopicKey(topic) == SubSeq(topic, Len(FramePrefix) + 1, Len(topic) - Len(TagSuffix))

\* the topic is "/Frame" ++ one or more decimal digits ++ "/tag"
IsNumberedTopic(topic) ==
  /\ Len(topic) > Len(FramePrefix) + Len(TagSuffix)
  /\ SubSeq(topic, 1, Len(FramePrefix)) = FramePrefix
  /\ SubSeq(topic, Len(topic) - Len(TagSuffix) + 1, Len(topic)) = TagSuffix
  /\ \A j \in 1 .. Len(TopicKey(topic)) : TopicKey(topic)[j] \in Digits

\* the decimal value of the first n of a string of digits
RECURSIVE DecimalUpTo(_, _)
DecimalUpTo(ds, n) ==
  IF n = 0 THEN 0 ELSE 10 * DecimalUpTo(ds, n - 1) + DigitVal[ds[n]]

\* the decimal value of a string of digits
DecimalValue(ds) == DecimalUpTo(ds, Len(ds))

\* C4: a report on "/Frame<K>/tag", K a decimal number of one or more digits
\* outside 1 .. numFrames, leaves the whole frame table unchanged
C4_OutOfRangeIgnored ==
  [][/\ lastOp'.op = "report"
     /\ IsNumberedTopic(lastOp'.in.topic)
     /\ DecimalValue(TopicKey(lastOp'.in.topic)) \notin 1 .. numFrames
     => frames' = frames]_vars

\* C5: a report on a topic that is not "/Frame<K>/tag" with K a number, such
\* as "/Frame1/x/tag" or a longer topic whose first 31 bytes end in "/tag", is
\* ignored: the frame table is unchanged
C5_OtherTopicIgnored ==
  [][lastOp'.op = "report" /\ ~IsNumberedTopic(lastOp'.in.topic)
     => frames' = frames]_vars

\* the frame a topic "/Frame<K>/tag" with K in 1 .. numFrames addresses
IsNodeTopic(topic) ==
  IsNumberedTopic(topic) /\ DecimalValue(TopicKey(topic)) \in 1 .. numFrames

NodeOf(topic) == DecimalValue(TopicKey(topic)) - 1

WhiteSpace == {" ", "\t", "\n", "\r"}

\* s without the white space around it
Stripped(s) ==
  LET inked == {j \in 1 .. Len(s) : s[j] \notin WhiteSpace}
  IN IF inked = {} THEN <<>>
     ELSE SubSeq(s, Least(inked), Greatest(inked))

\* the leading run of digits of s
LeadingDigits(s) ==
  SubSeq(s, 1, Greatest({k \in 0 .. Len(s) : \A j \in 1 .. k : s[j] \in Digits}))

\* a string of digits without its leading zeros; "0" for none or all zeros
Canonical(ds) ==
  LET nz == {j \in 1 .. Len(ds) : ds[j] # "0"}
  IN IF nz = {} THEN <<"0">>
     ELSE SubSeq(ds, Least(nz), Len(ds))

\* the first 31 bytes of the payload, up to the first NUL among them
ReadPayload(data) ==
  LET head == SubSeq(data, 1, IF Len(data) > MaxCopy THEN MaxCopy ELSE Len(data))
      nuls == {j \in 1 .. Len(head) : head[j] = NUL}
  IN IF nuls = {} THEN head
     ELSE SubSeq(head, 1, Least(nuls) - 1)

MaxU32Text == <<"4", "2", "9", "4", "9", "6", "7", "2", "9", "5">>

\* ds, canonical, is at most 4294967295
FitsU32(ds) ==
  \/ Len(ds) < Len(MaxU32Text)
  \/ /\ Len(ds) = Len(MaxU32Text)
     /\ \/ ds = MaxU32Text
        \/ \E k \in 1 .. Len(ds) :
             /\ \A j \in 1 .. (k - 1) : ds[j] = MaxU32Text[j]
             /\ DigitVal[ds[k]] < DigitVal[MaxU32Text[k]]

\* the uint32_t with the decimal digits ds, for ds at most 4294967295:
\* 100000 * (all but the last five digits) + (the last five digits)
U32OfDigits(ds) ==
  LET cut == IF Len(ds) > 5 THEN Len(ds) - 5 ELSE 0
      top == DecimalUpTo(ds, cut)
      low == DecimalValue(SubSeq(ds, cut + 1, Len(ds)))
      rest == top * (100000 - TwoPow16) + low
  IN U32(top + rest \div TwoPow16, rest % TwoPow16)

C7_ReportWritesTagAndTime ==
  [][/\ lastOp'.op = "report" =>
          /\ \A i \in FrameIds :
               /\ frames'[i].status = frames[i].status
               /\ frames'[i].desiredTag = frames[i].desiredTag
          /\ IsNodeTopic(lastOp'.in.topic) =>
               /\ \A i \in FrameIds \ {NodeOf(lastOp'.in.topic)} :
                    frames'[i] = frames[i]
               /\ U32ToNat(frames'[NodeOf(lastOp'.in.topic)].lastUpdateTime)
                    = millis.s
     /\ (\E i \in FrameIds : frames'[i].status # frames[i].status)
          => lastOp'.op = "loop"]_vars

\* frame 2 has just reported the tag of its role, and its status is still the
\* NO_TAG of the evaluation pass before the report
C7_Witness ==
  /\ lastOp.op = "report"
  /\ lastOp.in.topic = FrameTopic(<<"2">>)
  /\ lastReport[1] = uptime
  /\ frames[1].desiredTag = tags[1]
  /\ frames[1].detectedTag = tags[1]
  /\ frames[1].status = NO_TAG
  /\ frames[0].status = TAG_PRESENT

\* ---------------------------------------------------------------------------
\* Properties of the role configuration (under SpecConfig)
\* ---------------------------------------------------------------------------
\* the request carries the argument and its text is one or more digits
IsNumeric(args, name) ==
  /\ name \in DOMAIN args
  /\ args[name] # <<>>
  /\ \A j \in 1 .. Len(args[name]) : args[name][j] \in Digits

\* the request names a node with the argument: a number in 1 .. numFrames
NamesNode(args, name) ==
  IsNumeric(args, name) /\ DecimalValue(args[name]) \in 1 .. numFrames

\* the request leaves the frame table, the RAM copy of the EEPROM and the
\* flash as they were
ConfigRejected ==
  frames' = frames /\ eeprom' = eeprom /\ flash' = flash

\* C9: a reconfiguration request in which left and right name the same node
\* is rejected: no desiredTag changes, nothing is written to the EEPROM, and
\* the assignment stored before stays active and persisted
C9_SameNodeRejected ==
  [][/\ lastOp'.op = "config"
     /\ NamesNode(lastOp'.in, "left") /\ NamesNode(lastOp'.in, "right")
     /\ DecimalValue(lastOp'.in.left) = DecimalValue(lastOp'.in.right)
     => ConfigRejected]_vars

\* left = right = 2 was asked for while left -> frame 1, right -> frame 2 is
\* stored and active, and it still is
C9_Witness ==
  /\ lastOp.op = "config"
  /\ lastOp.in = [left |-> <<"2">>, right |-> <<"2">>]
  /\ flash = StoredLeft1Right2
  /\ frames[0].desiredTag = tags[0] /\ frames[1].desiredTag = tags[1]
  /\ frames[2].desiredTag = U32Zero

\* C10 as stated: a reconfiguration request in which left or right is
\* missing, not a number or outside 1 .. numFrames is rejected with nothing
\* applied, also when the other role names a valid node
C10_BadIdRejected ==
  [][/\ lastOp'.op = "config"
     /\ ~NamesNode(lastOp'.in, "left") \/ ~NamesNode(lastOp'.in, "right")
     => ConfigRejected]_vars

\* what String::toInt() makes of an unsigned argument: the value of its
\* leading digits, white space before them skipped, 0 when it has none
LeadingValue(args, name) == DecimalValue(LeadingDigits(Stripped(args[name])))

\* C10, amended: a reconfiguration request in which left or right is missing,
\* or has leading digits whose value is outside 1 .. numFrames (0 when it has
\* no leading digit), is rejected with nothing applied, also when the other
\* role names a valid node; text after the leading digits is not looked at
C10_BadLeadingIdRejected ==
  [][/\ lastOp'.op = "config"
     /\ \E name \in {"left", "right"} :
          \/ name \notin DOMAIN lastOp'.in
          \/ LeadingValue(lastOp'.in, name) \notin 1 .. numFrames
     => ConfigRejected]_vars

\* right = 3 came without a left while left -> frame 1, right -> frame 2 is
\* stored and active, and it still is
C10_Witness ==
  /\ lastOp.op = "config"
  /\ lastOp.in = [right |-> <<"3">>]
  /\ flash = StoredLeft1Right2
  /\ frames[0].desiredTag = tags[0] /\ frames[1].desiredTag = tags[1]
  /\ frames[2].desiredTag = U32Zero

\* no two frames of the table hold the same desiredTag other than 0
RolesDistinct(fr) ==
  \A i, j \in FrameIds :
    i # j /\ fr[i].desiredTag # U32Zero => fr[i].desiredTag # fr[j].desiredTag

\* C11: in every state, the states in the middle of handleConfig() and of
\* setupFrames() included, no two frames hold the same desiredTag other than
\* 0; handleConfig() has set every desiredTag to 0 when it writes the new
\* left and right roles
C11_RolesDistinct ==
  [][/\ RolesDistinct(frames) /\ RolesDistinct(frames')
     /\ lastOp'.op = "setup" =>
          \A steps \in {SetupSteps(frames, flash.left, flash.right)} :
            /\ \A k \in 1 .. Len(steps) : RolesDistinct(steps[k])
            /\ frames' = steps[Len(steps)]
     /\ lastOp'.op = "config" /\ frames' # frames =>
          \A leftId \in {LeadingValue(lastOp'.in, "left") - 1} :
          \A rightId \in {LeadingValue(lastOp'.in, "right") - 1} :
          \A steps \in {ConfigSteps(frames, leftId, rightId)} :
            /\ \A k \in 1 .. Len(steps) : RolesDistinct(steps[k])
            /\ \A i \in FrameIds : steps[numFrames][i].desiredTag = U32Zero
            /\ frames' = steps[Len(steps)]]_vars

\* left -> frame 1, right -> frame 2 was active and left=3, right=1 has
\* just been applied: frame 1 changed role, frame 2 lost its role
C11_Witness ==
  /\ lastOp.op = "config"
  /\ lastOp.in = [left |-> <<"3">>, right |-> <<"1">>]
  /\ frames[2].desiredTag = tags[0] /\ frames[0].desiredTag = tags[1]
  /\ frames[1].desiredTag = U32Zero
  /\ frames[1].detectedTag = tags[1]

\* C12: in every state a frame whose desiredTag is 0 does not have the status
\* TAG_PRESENT, also a frame that was TAG_PRESENT and then lost its role in a
\* reconfiguration
C12_SpareNeverPresent ==
  \A i \in FrameIds :
    frames[i].desiredTag = U32Zero => frames[i].status # TAG_PRESENT

\* the request names two different nodes, as String::toInt() reads them
RequestValid(args) ==
  /\ "left" \in DOMAIN args /\ "right" \in DOMAIN args
  /\ LeadingValue(args, "left") \in 1 .. numFrames
  /\ LeadingValue(args, "right") \in 1 .. numFrames
  /\ LeadingValue(args, "left") # LeadingValue(args, "right")

\* the frame table holds exactly the assignment left -> l, right -> r
RolesAre(fr, l, r) ==
  \A i \in FrameIds :
    fr[i].desiredTag = IF i = l THEN tags[0] ELSE IF i = r THEN tags[1]
                       ELSE U32Zero

\* C13: the role assignment survives a restart. A reconfiguration that is
\* accepted and committed leaves its (left, right) in the flash; nothing but
\* an accepted reconfiguration changes the flash, a restart least of all; and
\* setupFrames() makes exactly the assignment in the flash the active one
C13_AssignmentSurvivesRestart ==
  [][/\ flash' # flash => lastOp'.op = "config" /\ RequestValid(lastOp'.in)
     /\ lastOp'.op = "config" /\ RequestValid(lastOp'.in) /\ ~eeprom'.dirty =>
          flash' = [left |-> LeadingValue(lastOp'.in, "left") - 1,
                    right |-> LeadingValue(lastOp'.in, "right") - 1]
     /\ lastOp'.op = "restart" => flash' = flash
     /\ lastOp'.op = "setup" /\ flash.left \in FrameIds
          /\ flash.right \in FrameIds /\ flash.left # flash.right =>
          flash' = flash /\ RolesAre(frames', flash.left, flash.right)]_vars

\* left=3, right=1 was committed, the controller restarted, and setup() has
\* restored left -> frame 3, right -> frame 1
C13_Witness ==
  /\ lastOp.op = "setup"
  /\ flash = [left |-> 2, right |-> 0]
  /\ RolesAre(frames, 2, 0)

\* the pair in the flash is two different indices of frames
StoredPairUsable ==
  flash.left \in FrameIds /\ flash.right \in FrameIds /\ flash.left # flash.right

\* C14: loading fails soft. When the pair read from the flash at startup is
\* not two different indices in 0 .. numFrames-1, setupFrames() leaves every
\* desiredTag 0, the frame table has no entry outside its indices, and the
\* controller is running: the evaluation pass can be taken
C14_LoadFailsSoft ==
  lastOp.op = "setup" /\ ~StoredPairUsable =>
    /\ DOMAIN frames = FrameIds
    /\ \A i \in FrameIds : frames[i] = FramesAtReset[i]
    /\ pc = "run"
    /\ ENABLED loop

\* the flash held left = numFrames, right = 0 at startup; setup() has left
\* every frame without a role and the evaluation pass has run
C14_Witness ==
  /\ lastOp.op = "loop"
  /\ flash = [left |-> numFrames, right |-> 0]
  /\ eeprom = [left |-> numFrames, right |-> 0, dirty |-> FALSE]
  /\ \A i \in FrameIds : frames[i].desiredTag = U32Zero
  /\ numMatches = 0

\* C15: saving is atomic for the caller. After any handleConfig(), whether
\* its write to the flash succeeds or fails, the requested assignment is both
\* in the flash and active, or the flash and the frame table are as they
\* were; the flash never holds one new and one old index
C15_SaveIsAtomic ==
  [][lastOp'.op = "config" =>
       \/ flash' = flash /\ frames' = frames
       \/ /\ RequestValid(lastOp'.in)
          /\ flash' = [left |-> LeadingValue(lastOp'.in, "left") - 1,
                       right |-> LeadingValue(lastOp'.in, "right") - 1]
          /\ RolesAre(frames', flash'.left, flash'.right)]_vars

\* ---------------------------------------------------------------------------
\* Properties of the lock actuator (under Spec)
\* ---------------------------------------------------------------------------
AllPins(level) == [door1 |-> level, door2 |-> level, led |-> level]

\* C16: the door command does not depend on the quorum or on the frames:
\* doorCmd=open opens and doorCmd=lock locks whatever the match count, a
\* missing or unknown doorCmd changes nothing, and in every case the frame
\* table is left as it is
C16_DoorCmdIndependent ==
  [][lastOp'.op = "doorCmd" =>
       /\ frames' = frames /\ numMatches' = numMatches
       /\ IF "doorCmd" \in DOMAIN lastOp'.in /\ lastOp'.in.doorCmd = "open"
          THEN doorsOpen' /\ pins' = AllPins(OFF)
          ELSE IF "doorCmd" \in DOMAIN lastOp'.in /\ lastOp'.in.doorCmd = "lock"
               THEN ~doorsOpen' /\ pins' = AllPins(ON)
               ELSE doorsOpen' = doorsOpen /\ pins' = pins]_vars

\* the last evaluation pass counted two matches and opened; the lock command
\* has locked the doors all the same
C16_Witness ==
  /\ lastOp.op = "doorCmd" /\ lastOp.in = [doorCmd |-> "lock"]
  /\ numMatches = requiredMatches
  /\ frames[0].status = TAG_PRESENT /\ frames[1].status = TAG_PRESENT
  /\ ~doorsOpen /\ pins = AllPins(ON)

\* the doors are locked: the flag says so and the magnets and the LED are on
Locked == ~doorsOpen /\ pins = AllPins(ON)

\* C17: there is no automatic relock. An evaluation pass that counts fewer
\* than requiredMatches matches leaves the flag and the outputs as they are;
\* the doors become locked in a lock command only, and the flag falls from
\* open in a lock command only, or in a restart, which leaves the outputs
\* undriven until setup() opens again
C17_NoAutomaticRelock ==
  [][/\ lastOp'.op = "loop" /\ numMatches' < requiredMatches =>
          doorsOpen' = doorsOpen /\ pins' = pins
     /\ ~Locked /\ Locked' =>
          lastOp'.op = "doorCmd" /\ lastOp'.in = [doorCmd |-> "lock"]
     /\ doorsOpen /\ ~doorsOpen' =>
          \/ lastOp'.op = "doorCmd" /\ lastOp'.in = [doorCmd |-> "lock"]
          \/ lastOp'.op = "restart" /\ pins' = AllPins(UNDRIVEN)]_vars

\* both frames with a role had reported and have fallen silent; the pass
\* counts no match and the doors are still open
C17_Witness ==
  /\ lastOp.op = "loop"
  /\ lastReport[0] >= 0 /\ lastReport[1] >= 0
  /\ frames[0].status = NOT_RESPONDING /\ frames[1].status = NOT_RESPONDING
  /\ numMatches = 0
  /\ doorsOpen /\ pins = AllPins(OFF)

\* the step calls openDoor(): setup(), a pass with enough matches, doorCmd=open
OpenDoorCalled ==
  \/ lastOp'.op = "setup"
  \/ lastOp'.op = "loop" /\ numMatches' >= requiredMatches
  \/ lastOp'.op = "doorCmd" /\ lastOp'.in = [doorCmd |-> "open"]

\* the step calls lockDoor(): doorCmd=lock
LockDoorCalled == lastOp'.op = "doorCmd" /\ lastOp'.in = [doorCmd |-> "lock"]

\* C18: the actuator is idempotent. openDoor() gives the same flag and
\* outputs from any state, so called in the state an openDoor() left it
\* changes nothing, and likewise lockDoor(); a pass that opens while the
\* doors are open by an earlier pass changes nothing
C18_ActuatorIdempotent ==
  [][/\ OpenDoorCalled =>
          /\ doorsOpen' /\ pins' = AllPins(OFF)
          /\ doorsOpen /\ pins = AllPins(OFF) => UNCHANGED <<doorsOpen, pins>>
     /\ LockDoorCalled =>
          /\ ~doorsOpen' /\ pins' = AllPins(ON)
          /\ Locked => UNCHANGED <<doorsOpen, pins>>]_vars

\* both frames reported their tags at t = 0 and the passes at t = 0, 1 and
\* 2 s each counted two matches and called openDoor()
C18_Witness ==
  /\ lastOp.op = "loop" /\ uptime = 2 /\ nAdv = 2
  /\ lastReport[0] = 0 /\ lastReport[1] = 0
  /\ numMatches = requiredMatches
  /\ doorsOpen /\ pins = AllPins(OFF)

\* C19: once setup() has run, after any openDoor() and lockDoor() calls the
\* flag doorsOpen is the last call made and agrees with the outputs: it is
\* true iff DOOR1 and DOOR2 are both OFF, false iff both are ON, and the two
\* outputs never differ; a step that calls neither leaves flag and outputs
\* alone
C19_FlagAgreesWithOutputs ==
  [][/\ pc' = "run" =>
          /\ doorsOpen' <=> (pins'.door1 = OFF /\ pins'.door2 = OFF)
          /\ ~doorsOpen' <=> (pins'.door1 = ON /\ pins'.door2 = ON)
          /\ pins'.door1 = pins'.door2
     /\ OpenDoorCalled => doorsOpen'
     /\ LockDoorCalled => ~doorsOpen'
     /\ ~OpenDoorCalled /\ ~LockDoorCalled /\ lastOp'.op # "restart" =>
          UNCHANGED <<doorsOpen, pins>>]_vars

\* the doors were locked by a command and a pass has since counted one
\* match: flag false, both magnets on
C19_Witness ==
  /\ lastOp.op = "loop" /\ numMatches = 1
  /\ ~doorsOpen /\ pins.door1 = ON /\ pins.door2 = ON

\* the evaluation pass at t = 130 s of the scenario: left -> frame 1,
\* right -> frame 2, frame 1 reported its tag at t = 0 and nothing since,
\* the report of frame 2 is no older than 120 s and has the tag of its role
SilentLeftScenario ==
  /\ lastOp'.op = "loop" /\ uptime = LivenessTimeout + 10
  /\ frames[0].desiredTag = tags[0] /\ lastReport[0] = 0
  /\ frames[1].desiredTag = tags[1] /\ frames[1].detectedTag = tags[1]
  /\ lastReport[1] >= 0 /\ uptime - lastReport[1] <= LivenessTimeout

\* C20 as stated: in the scenario the pass sets frame 1 to NOT_RESPONDING
\* with detectedTag 0, and its match count is 0
C20_SilentLeftCountsZero ==
  [][SilentLeftScenario =>
       /\ frames'[0].status = NOT_RESPONDING
       /\ frames'[0].detectedTag = U32Zero
       /\ numMatches' = 0]_vars

\* C20, amended: in the scenario the pass sets frame 1 to NOT_RESPONDING with
\* detectedTag 0 and counts frame 2 alone: the match count is 1, below
\* requiredMatches
C20_SilentLeftCountsOne ==
  [][SilentLeftScenario =>
       /\ frames'[0].status = NOT_RESPONDING
       /\ frames'[0].detectedTag = U32Zero
       /\ frames'[1].status = TAG_PRESENT
       /\ numMatches' = 1 /\ numMatches' < requiredMatches]_vars

\* the scenario after the pass at t = 130 s, frame 2 having reported at 120 s
C20_Witness ==
  /\ lastOp.op = "loop" /\ uptime = LivenessTimeout + 10
  /\ lastReport[0] = 0 /\ lastReport[1] = LivenessTimeout
  /\ frames[0].status = NOT_RESPONDING /\ frames[0].detectedTag = U32Zero
  /\ frames[1].status = TAG_PRESENT /\ frames[1].detectedTag = tags[1]
  /\ numMatches = 1

\* ---------------------------------------------------------------------------
\* What opens and what locks (under Spec)
\* ---------------------------------------------------------------------------
\* C21: the flag doorsOpen goes from false to true only in doorCmd=open, in
\* setup(), or in an evaluation pass in which at least requiredMatches
\* different frames have a role, the tag of that role, and a report accepted
\* no more than 120 s before the pass
C21_OpensOnFreshQuorumOnly ==
  [][~doorsOpen /\ doorsOpen' =>
       \/ lastOp'.op = "doorCmd" /\ lastOp'.in = [doorCmd |-> "open"]
       \/ lastOp'.op = "setup"
       \/ /\ lastOp'.op = "loop"
          /\ Cardinality(FreshMatches) >= requiredMatches]_vars

\* frame 1 reported at t = 0 and frame 2 ten seconds later; the pass at
\* t = 10 s counts both and the doors are open
C21_Witness ==
  /\ lastOp.op = "loop" /\ uptime = 10
  /\ lastReport[0] = 0 /\ lastReport[1] = 10
  /\ frames[0].status = TAG_PRESENT /\ frames[1].status = TAG_PRESENT
  /\ numMatches = requiredMatches /\ doorsOpen

\* C22: a manual lock does not last while the quorum holds. A pass that
\* finds the doors locked and counts at least requiredMatches opens them;
\* the doors are still locked after a pass only if it counted fewer
C22_LockYieldsToQuorum ==
  [][lastOp'.op = "loop" /\ Locked =>
       /\ numMatches' >= requiredMatches => doorsOpen' /\ pins' = AllPins(OFF)
       /\ Locked' => numMatches' < requiredMatches]_vars

\* the doors have just been locked by a command one second after both
\* frames reported the tags of their roles: the next pass will open them
C22_Witness ==
  /\ lastOp.op = "doorCmd" /\ lastOp.in = [doorCmd |-> "lock"]
  /\ Locked
  /\ uptime = 1 /\ lastReport[0] = 0 /\ lastReport[1] = 0
  /\ frames[0].detectedTag = tags[0] /\ frames[1].detectedTag = tags[1]

\* C23: every boot ends with the doors open. setup() is the one step taken
\* from power-up or a restart, it leaves doorsOpen true and the outputs OFF
\* whatever they were, no report has been stored by then, and from then on
\* the doors become locked in a lock command only
C23_BootEndsOpen ==
  [][/\ pc = "boot" => lastOp'.op = "setup"
     /\ lastOp'.op = "restart" => pc' = "boot" /\ ~Locked'
     /\ lastOp'.op = "setup" =>
          /\ doorsOpen' /\ pins' = AllPins(OFF)
          /\ \A i \in FrameIds : lastReport'[i] < 0
     /\ ~Locked /\ Locked' => LockDoorCalled]_vars

\* setup() has run with left -> frame 1, right -> frame 2 in the flash: the
\* doors are open and no frame has reported
C23_Witness ==
  /\ lastOp.op = "setup" /\ pc = "run"
  /\ doorsOpen /\ pins = AllPins(OFF)
  /\ RolesAre(frames, 0, 1)
  /\ \A i \in FrameIds : lastReport[i] < 0

\* ---------------------------------------------------------------------------
\* Who writes what (under SpecEffects and SpecReport)
\* ---------------------------------------------------------------------------
\* the step is a report on the topic of frame i + 1
ReportFor(i) ==
  /\ lastOp'.op = "report"
  /\ IsNodeTopic(lastOp'.in.topic) /\ NodeOf(lastOp'.in.topic) = i

\* C24 as stated: detectedTag of a frame changes only when a report for that
\* frame is accepted; evaluation passes, door commands, reconfigurations and
\* reports for other frames leave it as it is
C24_TagSetByReportOnly ==
  [][lastOp'.op \in {"loop", "doorCmd", "config", "report"} =>
       \A i \in FrameIds :
         frames'[i].detectedTag # frames[i].detectedTag => ReportFor(i)]_vars

\* C24, amended: detectedTag of a frame changes only when a report for that
\* frame is accepted, when an evaluation pass finds the frame silent for
\* more than 120 s and sets it to 0, or when a restart or setupFrames()
\* resets it to 0; door commands, reconfigurations and reports for other
\* frames leave it as it is
C24_TagSetByReportOrTimeout ==
  [][\A i \in FrameIds :
       frames'[i].detectedTag # frames[i].detectedTag =>
         \/ ReportFor(i)
         \/ /\ lastOp'.op = "loop" /\ Overdue(i)
            /\ frames'[i].detectedTag = U32Zero
         \/ /\ lastOp'.op \in {"setup", "restart"}
            /\ frames'[i].detectedTag = U32Zero]_vars

\* both frames reported, the doors were locked by a command, and left=3,
\* right=1 has been applied: every detectedTag is what the reports left
C24_Witness ==
  /\ lastOp.op = "config"
  /\ lastOp.in = [left |-> <<"3">>, right |-> <<"1">>]
  /\ RolesAre(frames, 2, 0)
  /\ Locked
  /\ frames[0].detectedTag = tags[0] /\ frames[1].detectedTag = tags[1]
  /\ frames[2].detectedTag = U32Zero

\* C25: desiredTag of a frame is modified only at startup (the reset of RAM
\* and setupFrames()) and by an accepted handleConfig(); reports whatever
\* their topic and payload, evaluation passes and door commands leave every
\* desiredTag as it is
C25_RoleSetByConfigOnly ==
  [][/\ (\E i \in FrameIds : frames'[i].desiredTag # frames[i].desiredTag) =>
          \/ lastOp'.op \in {"setup", "restart"}
          \/ lastOp'.op = "config" /\ RequestValid(lastOp'.in)
     /\ lastOp'.op \in {"report", "loop", "doorCmd", "idle"} =>
          \A i \in FrameIds : frames'[i].desiredTag = frames[i].desiredTag]_vars

\* left=3, right=1 is active, the doors are locked, and frame 2, which lost
\* its role, has just sent "abc": the roles are as configured
C25_Witness ==
  /\ lastOp.op = "report"
  /\ lastOp.in = Report(FrameTopic(<<"2">>), <<"a", "b", "c">>)
  /\ lastReport[1] = uptime
  /\ RolesAre(frames, 2, 0)
  /\ Locked

\* C26: an accepted reconfiguration resets desiredTag and status of every
\* frame: when handleConfig() returns, desiredTag holds exactly the new
\* assignment and every status is the one of a frame not yet evaluated,
\* NO_TAG, none being left from an evaluation under the old assignment
C26_ConfigResetsRolesAndStatus ==
  [][lastOp'.op = "config" /\ RequestValid(lastOp'.in) =>
       /\ RolesAre(frames', LeadingValue(lastOp'.in, "left") - 1,
                   LeadingValue(lastOp'.in, "right") - 1)
       /\ \A i \in FrameIds : frames'[i].status = NO_TAG]_vars

\* C27: the flag and the door outputs are written by openDoor() and
\* lockDoor() only (a restart puts them back to their reset values). A report
\* and a reconfiguration, accepted or not, leave both as they are; so the
\* report that completes the quorum leaves locked doors locked: they open in
\* a later step, an evaluation pass or an open command
C27_LockWrittenByActuatorOnly ==
  [][/\ lastOp'.op \in {"report", "config"} => UNCHANGED <<doorsOpen, pins>>
     /\ (doorsOpen' # doorsOpen \/ pins' # pins) =>
          OpenDoorCalled \/ LockDoorCalled \/ lastOp'.op = "restart"
     /\ /\ lastOp'.op = "report" /\ Locked
        /\ Cardinality(FreshMatches') >= requiredMatches
        => Locked']_vars

\* the doors were locked by a command, and the report that has just been
\* stored completes the quorum: the doors are still locked
C27_Witness ==
  /\ lastOp.op = "report"
  /\ Cardinality(FreshMatches) = requiredMatches
  /\ lastReport[0] = uptime \/ lastReport[1] = uptime
  /\ Locked

\* the tag a payload carries: the value of its leading digits
TagOf(data) ==
  U32OfDigits(Canonical(LeadingDigits(Stripped(ReadPayload(data)))))

\* the status an evaluation pass gives frame i, from its record and the time
StatusDue(i) ==
  IF Overdue(i) THEN NOT_RESPONDING
  ELSE IF /\ frames[i].desiredTag # U32Zero
          /\ frames[i].detectedTag = frames[i].desiredTag
       THEN TAG_PRESENT
       ELSE NO_TAG

\* C28: reports coalesce between evaluation passes. A report for frame i
\* replaces the tag and the time of the record whatever earlier reports left
\* there; a pass computes the status of each frame and the match count from
\* the records and the current time alone; so when the last report for a
\* frame with a role carried another tag than that of the role, the pass
\* after it does not find the frame TAG_PRESENT, counts fewer than
\* requiredMatches and leaves the doors as they are, also when an earlier
\* report of the burst carried the right tag
C28_ReportsCoalesce ==
  [][/\ lastOp'.op = "report" /\ IsNodeTopic(lastOp'.in.topic) =>
          \A i \in {NodeOf(lastOp'.in.topic)} :
          \A tag \in {TagOf(lastOp'.in.data)} :
            /\ frames'[i].detectedTag = tag
            /\ U32ToNat(frames'[i].lastUpdateTime) = millis.s
     /\ lastOp'.op = "loop" =>
          /\ \A i \in FrameIds : frames'[i].status = StatusDue(i)
          /\ numMatches' =
               Cardinality({j \in FrameIds : frames'[j].status = TAG_PRESENT})
          /\ lastOp.op = "report" /\ IsNodeTopic(lastOp.in.topic) =>
               \A i \in {NodeOf(lastOp.in.topic)} :
                 /\ frames[i].desiredTag # U32Zero
                 /\ TagOf(lastOp.in.data) # frames[i].desiredTag
                 => /\ frames'[i].status # TAG_PRESENT
                    /\ numMatches' < requiredMatches
                    /\ UNCHANGED <<doorsOpen, pins>>]_vars

\* at t = 1 s the last report from frame 2 was "abc", read as tag 0, whatever
\* it reported before; the pass of that second counted frame 1 alone, and the
\* doors, locked by a command, stayed locked
C28_Witness ==
  /\ lastOp.op = "loop" /\ uptime = 1
  /\ lastReport[0] = 0 /\ lastReport[1] = 1
  /\ frames[1].desiredTag = tags[1] /\ frames[1].detectedTag = U32Zero
  /\ frames[0].status = TAG_PRESENT /\ frames[1].status = NO_TAG
  /\ numMatches = 1 /\ Locked

\* an evaluation pass is under way: between the capture of currentTime and
\* the decision to open
Evaluating == exec.at # "idle"

\* a report is half stored: detectedTag written, lastUpdateTime not yet
HalfStored == exec.cb # "none"

\* C29: no torn record is visible to the evaluator. A pass and the handling
\* of a report never overlap: while a pass is under way no report is half
\* stored and none is started, and while a report is half stored the pass
\* does not move; so every record a pass reads is complete, and its time was
\* written no later than the pass captured currentTime, also when the clock
\* ticks during the pass
C29_NoTornRecord ==
  [][/\ ~(Evaluating /\ HalfStored)
     /\ ~(Evaluating' /\ HalfStored')
     /\ Evaluating => exec'.cb = exec.cb /\ lastReport' = lastReport
     /\ HalfStored => exec'.at = exec.at /\ exec'.i = exec.i
     /\ lastOp'.op = "loopCheck" =>
          /\ ~HalfStored
          /\ lastReport[exec.i] <= exec.since]_vars

\* the clock ticked after currentTime was captured, and the pass under way
\* has found frame 2, whose report was stored in the second of the capture,
\* TAG_PRESENT
C29_Witness ==
  /\ exec.at = "check" /\ exec.i = 2
  /\ lastReport[1] = exec.since
  /\ uptime > exec.since
  /\ frames[1].status = TAG_PRESENT
  /\ ~HalfStored

\* char topicArray[32]; char dataArray[32];
BufferSize == 32

\* C30: for every topic and payload, frameStatusCallback() copies at most 31
\* bytes into each of its 32-byte buffers and writes the terminator at an
\* index of at most 31; the bytes copied are the input when it has 31 bytes
\* or fewer and its first 31 bytes when it is longer, and the tag stored is
\* the one read from those
C30_CopiesFitBuffers ==
  [][lastOp'.op = "report" =>
       /\ \A src \in {lastOp'.in.topic, lastOp'.in.data} :
            \A copied \in {CopyCapped(src)} :
              /\ Len(copied) <= 31
              /\ Len(copied) \in 0 .. (BufferSize - 1)
              /\ Len(src) <= BufferSize - 1 => copied = src
              /\ Len(src) >= BufferSize => copied = SubSeq(src, 1, BufferSize - 1)
       /\ IsNodeTopic(lastOp'.in.topic) =>
            \A f \in {frames'[NodeOf(lastOp'.in.topic)]} :
              /\ lastOp'.in.data = Payload31 => f.detectedTag = U32FromNat(123)
              /\ lastOp'.in.data = Payload32 => f.detectedTag = U32FromNat(123)
              /\ lastOp'.in.data = LongPayload => f.detectedTag = U32FromNat(123456)
      ]_vars

\* frame 2 sent 32 bytes, 28 blanks and "1234": the tag read is 123
C30_Witness ==
  /\ lastOp.op = "report"
  /\ lastOp.in = Report(FrameTopic(<<"2">>), Payload32)
  /\ lastReport[1] = uptime
  /\ frames[1].detectedTag = U32FromNat(123)

\* the last accepted report of frame i is at most 120 s old
ReportIsFresh(i) ==
  lastReport[i] >= 0 /\ uptime - lastReport[i] <= LivenessTimeout

\* C31: a frame whose last accepted report is at most 120 s old is never set
\* to NOT_RESPONDING, and never has its detectedTag cleared, by an evaluation
\* pass, at any uptime, also across the wrap of the counter behind millis()
C31_FreshFrameStaysAlive ==
  [][lastOp'.op = "loop" =>
       \A i \in FrameIds :
         ReportIsFresh(i) =>
           /\ frames'[i].status # NOT_RESPONDING
           /\ frames'[i].detectedTag = frames[i].detectedTag]_vars

\* the status a pass gives a frame that is not dead, from its record
StatusOfTag(f) ==
  IF f.desiredTag # U32Zero /\ f.detectedTag = f.desiredTag THEN TAG_PRESENT
  ELSE NO_TAG

\* C32: once a pass has set a frame to NOT_RESPONDING, every later pass keeps
\* it NOT_RESPONDING with detectedTag 0 until a report from it is accepted
\* (time moves on only after a pass, so such a report bears the time of the
\* pass that follows it); the first pass after the report sets the frame to
\* TAG_PRESENT when the reported tag is its desiredTag and that is not 0, and
\* to NO_TAG otherwise
C32_DeadUntilReport ==
  [][lastOp'.op = "loop" =>
       \A i \in FrameIds :
         frames[i].status = NOT_RESPONDING =>
           IF lastReport[i] # uptime
           THEN /\ frames'[i].status = NOT_RESPONDING
                /\ frames'[i].detectedTag = U32Zero
           ELSE frames'[i].status = StatusOfTag(frames[i])]_vars

\* C33: a frame from which no report was accepted since boot (lastUpdateTime
\* is the 0 of setupFrames()) gets NO_TAG from every pass of the first 120 s
\* after boot and NOT_RESPONDING from every pass after them, and is not among
\* the matches counted in either period
C33_NeverReportedFrame ==
  [][lastOp'.op = "loop" =>
       /\ numMatches' =
            Cardinality({j \in FrameIds : frames'[j].status = TAG_PRESENT})
       /\ \A i \in FrameIds :
            lastReport[i] < 0 =>
              /\ uptime <= LivenessTimeout => frames'[i].status = NO_TAG
              /\ uptime > LivenessTimeout => frames'[i].status = NOT_RESPONDING
     ]_vars

\* 10000 * a + b in uint32_t arithmetic, b < 10000
U32Times10000Plus(a, b) ==
  LET lo == 10000 * a.lo + b
      hi == 10000 * a.hi + (lo \div TwoPow16)
  IN U32(hi % TwoPow16, lo % TwoPow16)

\* the four digits of ds that end at position n, as a number
GroupOfFour(ds, n) ==
  1000 * DigitVal[ds[n - 3]] + 100 * DigitVal[ds[n - 2]]
    + 10 * DigitVal[ds[n - 1]] + DigitVal[ds[n]]

\* the decimal value of the first n digits of ds, modulo 2^32, taken four
\* digits at a time, the first group being the shorter one
RECURSIVE ValueMod32UpTo(_, _)
ValueMod32UpTo(ds, n) ==
  IF n <= 4 THEN U32FromNat(DecimalUpTo(ds, n))
  ELSE \* bind the value of the front part before the last group is added
       CHOOSE v \in {U32Times10000Plus(front, group) :
                       front \in {ValueMod32UpTo(ds, n - 4)},
                       group \in {GroupOfFour(ds, n)}} : TRUE

\* the decimal value of the digits ds, modulo 2^32
ValueMod32(ds) == ValueMod32UpTo(ds, Len(ds))

Sent == [tag \in SensedTags |-> Published(tag)]

RolesAtNextBoot(fl) ==
  [i \in FrameIds |-> setupFrames(fl.left, fl.right)[i].desiredTag]

\* C36: after every handleConfig(), accepted or rejected, whatever came of
\* EEPROM.commit(), the roles in memory are the roles setupFrames() would
\* load from the flash at the next boot
C36_MemoryMatchesFlash ==
  [][lastOp'.op = "config" =>
       \A roles \in {RolesAtNextBoot(flash')} :
         \A i \in FrameIds : frames'[i].desiredTag = roles[i]]_vars

\* ---------------------------------------------------------------------------
\* The frame node that publishes the tag it senses (src/unnamed/part_000).
\* The sketch gives way to the network stack inside delay(): in the wait loop
\* of publishTag() and in the delay(5000) of loop(); the MQTT callbacks run
\* there
\* ---------------------------------------------------------------------------
\* iterations of loop() after which the tag is published again unchanged
KeepAliveCount == 12

\* polls of publisherReady, 10 ms apart, before publishTag() gives up
PollLimit == 3000

\* polls that pass in one step of the wait loop when no callback runs
PollsPerStep == 1000

\* messages the MQTT client holds at most
MaxQueued == 2

\* what getTag() returns: 0 without a tag, else the first four UID bytes
NodeTags == {U32Zero, tags[0], U32(65535, 65535)}

\* a variant of PublishDue that lets one more iteration pass
PublishDueLate(tag, oldTag, count) ==
  tag /= oldTag \/ count > KeepAliveCount

\* if ( (tag != oldTag) || (count >= 12) )
PublishDue(tag, oldTag, count) ==
  tag /= oldTag \/ count >= KeepAliveCount

\* mqttConnectedCb(): connectedToBroker = true; publisherReady = true
mqttConnectedCb(n) ==
  [n EXCEPT !.connectedToBroker = TRUE, !.publisherReady = TRUE]

\* mqttPublishedCb(): publisherReady = true
mqttPublishedCb(n) == [n EXCEPT !.publisherReady = TRUE]

\* the sketch is inside delay(), so the network stack may run a callback
NodeYields == node.at \in {"wait", "delay"}

Ctrl ==
  <<frames, doorsOpen, pins, flash, eeprom, millis, pc, numMatches, lastOp,
    uptime, lastReport, nAdv, exec>>

\* setup(): connectMqtt() returns once mqttConnectedCb() has run (it restarts
\* the node otherwise, which starts setup() again)
Node_setup ==
  /\ node.at = "setup"
  /\ node' = [mqttConnectedCb(node) EXCEPT !.at = "loop"]
  /\ net' = [net EXCEPT !.link = "up", !.ev = "setup"]
  /\ UNCHANGED Ctrl

\* loop() up to the wait loop of publishTag(), or up to delay(5000) when
\* nothing is published; accepted is what mqtt.publish() returns
Node_loop(tag, accepted) ==
  /\ node.at = "loop"
  /\ LET count == node.count + 1
     IN IF PublishDue(tag, node.oldTag, count)
        THEN /\ accepted => net.queued < MaxQueued
             /\ node' = [node EXCEPT !.count = count, !.tag = tag,
                                     !.publisherReady = FALSE, !.i = 0,
                                     !.at = "wait"]
             /\ net' = [net EXCEPT
                          !.queued = IF accepted THEN @ + 1 ELSE @,
                          !.mine = accepted, !.acked = FALSE,
                          !.quiet = 0, !.first = FALSE, !.prev = tag,
                          !.ev = "publish"]
        ELSE /\ accepted
             /\ node' = [node EXCEPT !.count = count, !.tag = tag,
                                     !.oldTag = tag, !.at = "delay"]
             /\ net' = [net EXCEPT !.quiet = @ + 1, !.first = FALSE,
                                   !.prev = tag, !.ev = "skip"]
  /\ UNCHANGED Ctrl

\* the wait loop of publishTag() after PollsPerStep more polls, and what
\* follows it: the return to loop() (count = 0; oldTag = tag) when
\* publisherReady is set, the restart when the polls are used up
Node_poll ==
  /\ node.at = "wait"
  /\ LET i == IF node.i + PollsPerStep > PollLimit THEN PollLimit
              ELSE node.i + PollsPerStep
     IN IF node.publisherReady
        THEN /\ node' = [node EXCEPT !.count = 0, !.oldTag = node.tag,
                                     !.i = 0, !.at = "delay"]
             /\ net' = [net EXCEPT !.ev = "returned"]
        ELSE IF i >= PollLimit
        THEN /\ node' = NodeAtReset
             /\ net' = [NetAtReset EXCEPT !.ev = "timeout"]
        ELSE /\ node' = [node EXCEPT !.i = i]
             /\ net' = [net EXCEPT !.ev = "polled"]
  /\ UNCHANGED Ctrl

\* delay(5000) returns and loop() is called again
Node_delayDone ==
  /\ node.at = "delay"
  /\ node' = [node EXCEPT !.at = "loop"]
  /\ net' = [net EXCEPT !.ev = "delayed"]
  /\ UNCHANGED Ctrl

\* the client has sent its oldest message and calls mqttPublishedCb()
Node_mqttPublishedCb ==
  /\ NodeYields
  /\ net.link = "up" /\ net.queued > 0
  /\ node' = mqttPublishedCb(node)
  /\ net' = [net EXCEPT !.queued = @ - 1,
                        !.acked = @ \/ (net.mine /\ net.queued = 1),
                        !.mine = @ /\ net.queued > 1,
                        !.ev = "published"]
  /\ UNCHANGED Ctrl

\* the connection drops and mqttDisconnectedCb() runs: both flags false,
\* then disconnectWifi(), connectWifi() and connectMqtt(), which returns
\* after mqttConnectedCb() or restarts the node; the client keeps or loses
\* what it had queued
Node_mqttDisconnectedCb(reconnected, kept) ==
  /\ NodeYields
  /\ net.link = "up"
  /\ IF reconnected
     THEN /\ node' = mqttConnectedCb([node EXCEPT
                                        !.connectedToBroker = FALSE,
                                        !.publisherReady = FALSE])
          /\ net' = [net EXCEPT !.queued = IF kept THEN @ ELSE 0,
                                !.mine = @ /\ kept,
                                !.ev = "reconnected"]
     ELSE /\ kept
          /\ node' = NodeAtReset
          /\ net' = [NetAtReset EXCEPT !.ev = "restart"]
  /\ UNCHANGED Ctrl

NextNode ==
  \/ Node_setup
  \/ \E tag \in NodeTags, accepted \in BOOLEAN : Node_loop(tag, accepted)
  \/ Node_poll
  \/ Node_delayDone
  \/ Node_mqttPublishedCb
  \/ \E reconnected \in BOOLEAN, kept \in BOOLEAN :
       Node_mqttDisconnectedCb(reconnected, kept)

SpecNode == Init /\ [][NextNode]_vars

\* ---------------------------------------------------------------------------
\* The frame node publishing tags (under SpecNode)
\* ---------------------------------------------------------------------------
\* C37: an iteration of the node's loop() that follows another one publishes
\* exactly when the sensed tag differs from the tag sensed by the iteration
\* before it or when this is the 12th iteration since the last publish;
\* count is 0 after every publish; and never do 12 iterations in a row pass
\* without a publish
C37_PublishOnChangeOrTwelfth ==
  /\ [](net.quiet < KeepAliveCount)
  /\ [][/\ (net'.ev \in {"publish", "skip"} /\ ~net.first) =>
             ((net'.ev = "publish") <=>
                (node'.tag /= net.prev \/ net.quiet + 1 = KeepAliveCount))
        /\ net'.ev = "returned" => node'.count = 0]_vars

\* the 12th iteration in a row that senses the same tag publishes it again
C37_Witness ==
  /\ net.ev = "publish"
  /\ node.count = KeepAliveCount
  /\ node.tag = node.oldTag
  /\ node.tag = tags[0]

\* C38: publishTag() returns to loop() only after the published callback for
\* its message has run, and restarts the node only after 3000 polls that
\* found publisherReady false, however the connected, disconnected and
\* published callbacks fall into the wait loop
C38_ReturnsAfterPublished ==
  [][/\ net'.ev = "returned" => net.acked
     /\ net'.ev = "timeout" =>
          (~node.publisherReady /\ node.i + PollsPerStep >= PollLimit)]_vars

\* ---------------------------------------------------------------------------
\* The frame node that publishes "on" or "off" (src/unnamed/part_001). Its
\* publishTag() does not wait; the sketch gives way to the network stack in
\* server.handleClient() and delay(5000) at the end of loop()
\* ---------------------------------------------------------------------------
StatusNodeYields == node.at = "delay"

\* if (publisherReady) in publishTag()
StatusMayPublish(n) == n.publisherReady

\* String data((foundTag) ? "on" : "off")
StatusData(found) == IF found THEN <<"o", "n">> ELSE <<"o", "f", "f">>

\* setup(): connectWifi() and connectMqtt() return once the node is on the
\* network and mqttConnectedCb() has run
StatusNode_setup ==
  /\ node.at = "setup"
  /\ net.ap
  /\ node' = [node EXCEPT !.connectedToBroker = TRUE,
                          !.publisherReady = TRUE, !.at = "loop"]
  /\ net' = [net EXCEPT !.link = "up", !.ev = "setup"]
  /\ UNCHANGED Ctrl

\* loop() up to delay(5000): checkWifiStatus() restarts the node without
\* wifi; publishTag(foundTag) calls mqtt.publish() when publisherReady is
\* set and clears the flag when the client accepted the message
StatusNode_loop(found, accepted) ==
  /\ node.at = "loop"
  /\ IF ~net.ap
     THEN /\ ~found /\ accepted
          /\ node' = NodeAtReset
          /\ net' = [NetAtReset EXCEPT !.ap = net.ap, !.ev = "nowifi"]
     ELSE IF StatusMayPublish(node)
     THEN /\ accepted => net.queued < MaxQueued
          /\ node' = [node EXCEPT !.foundTag = found,
                                  !.publisherReady = ~accepted,
                                  !.at = "delay"]
          /\ net' = [net EXCEPT !.queued = IF accepted THEN @ + 1 ELSE @,
                                !.data = IF accepted THEN StatusData(found)
                                         ELSE @,
                                !.ev = IF accepted THEN "publish"
                                       ELSE "refused"]
     ELSE /\ accepted
          /\ node' = [node EXCEPT !.foundTag = found, !.at = "delay"]
          /\ net' = [net EXCEPT !.ev = "notready"]
  /\ UNCHANGED Ctrl

\* delay(5000) returns and loop() is called again
StatusNode_delayDone ==
  /\ node.at = "delay"
  /\ node' = [node EXCEPT !.at = "loop"]
  /\ net' = [net EXCEPT !.ev = "delayed"]
  /\ UNCHANGED Ctrl

\* mqttPublishedCb(): the client has sent its oldest message
StatusNode_mqttPublishedCb ==
  /\ StatusNodeYields
  /\ net.link = "up" /\ net.ap /\ net.queued > 0
  /\ node' = [node EXCEPT !.publisherReady = TRUE]
  /\ net' = [net EXCEPT !.queued = @ - 1, !.ev = "published"]
  /\ UNCHANGED Ctrl

\* mqttDisconnectedCb(): both flags false, then mqtt.connect(), which
\* returns at once; the client keeps or loses what it had queued
StatusNode_mqttDisconnectedCb(kept) ==
  /\ StatusNodeYields
  /\ net.link \in {"up", "connecting"}
  /\ node' = [node EXCEPT !.connectedToBroker = FALSE,
                          !.publisherReady = FALSE]
  /\ net' = [net EXCEPT !.queued = IF kept THEN @ ELSE 0,
                        !.link = "connecting", !.ev = "disconnected"]
  /\ UNCHANGED Ctrl

\* mqttConnectedCb(): the connection asked for by mqtt.connect() is there
StatusNode_mqttConnectedCb ==
  /\ StatusNodeYields
  /\ net.link = "connecting" /\ net.ap
  /\ node' = [node EXCEPT !.connectedToBroker = TRUE,
                          !.publisherReady = TRUE]
  /\ net' = [net EXCEPT !.link = "up", !.ev = "connected"]
  /\ UNCHANGED Ctrl

\* the access point goes away (the cabinet restarts) or comes back
AccessPoint(there) ==
  /\ node.at \in {"setup", "delay"}
  /\ net.ap /= there
  /\ net' = [net EXCEPT !.ap = there, !.ev = "ap"]
  /\ UNCHANGED node
  /\ UNCHANGED Ctrl

NextStatusNode ==
  \/ StatusNode_setup
  \/ \E found \in BOOLEAN, accepted \in BOOLEAN :
       StatusNode_loop(found, accepted)
  \/ \E there \in BOOLEAN : AccessPoint(there)
  \/ StatusNode_delayDone
  \/ StatusNode_mqttPublishedCb
  \/ \E kept \in BOOLEAN : StatusNode_mqttDisconnectedCb(kept)
  \/ StatusNode_mqttConnectedCb

SpecStatusNode == Init /\ [][NextStatusNode]_vars

\* ---------------------------------------------------------------------------
\* The frame node publishing its status (under SpecStatusNode)
\* ---------------------------------------------------------------------------
\* C39: the status node calls mqtt.publish() only with publisherReady set;
\* an accepted message clears the flag and a refused one leaves it set; the
\* flag is set again only by the published and the connected callback; and
\* the client never holds more than one message that awaits its published
\* callback
C39_OneMessageOutstanding ==
  /\ [](net.queued <= 1)
  /\ [][/\ net'.ev \in {"publish", "refused"} => node.publisherReady
        /\ net'.ev = "publish" => ~node'.publisherReady
        /\ net'.ev = "refused" => node'.publisherReady
        /\ (~node.publisherReady /\ node'.publisherReady) =>
             net'.ev \in {"published", "connected", "setup"}]_vars

====
